---- MODULE Spec2Model ----
(***************************************************************************)
(* A model of the pymaze core of dbkit: the Square / Border / Role value   *)
(* model, the Maze aggregate and its construction-time validation, the     *)
(* binary codec (file_format.py, serializer.py), the graph builder         *)
(* (converter.py, edge.py) and the solver (solver.py); of the commit      *)
(* hooks of dbkit.sql (callbacks.py, listeners.py) on sessions and their   *)
(* transactions; and of the Repository of sanctumlabs_dbkit.sql            *)
(* (repository.py) with the flush listener that sets updated_by.           *)
(***************************************************************************)
EXTENDS Integers, Sequences, FiniteSets, TLC

VARIABLES
    pc,         \* position of the session: which operation ran last
    input,      \* what the caller supplies: a square sequence or a byte stream
    maze,       \* the result of Maze(squares=...) on the supplied squares
    file,       \* the bytes at the path that dump writes and load reads
    loaded,     \* the result of Maze.load(path)
    redump,     \* the bytes written by dumping the loaded maze
    nodes,      \* the result of get_nodes(maze)
    edges,      \* the result of get_edges(maze, nodes)
    graph,      \* the result of make_graph(maze)
    solution,   \* the result of solve(maze)
    solutions,  \* the result of solve_all(maze)
    txn,        \* per session, its open transactions: the root first, then the nested ones
    info,       \* per session, the "on_commit_hooks" entry of session.info
    pending,    \* per session and open transaction, the objects added in it
    db,         \* the objects a committed root transaction persisted
    calls,      \* the calls the callbacks received so far: <<callback, argument>>
    owner,      \* per callback registered so far, the session it was registered with
    waiting,    \* per session, the callbacks registered since its last root transaction ended
    discarded,  \* the callbacks that waited on a session when its root transaction was rolled back
    lost,       \* the objects that were pending in a session when its root transaction was rolled back
    frame,      \* the running call of process_hooks: its session and the callback it popped
    spawned,    \* the callbacks that a running callback registered
    records,    \* per model, the entities of the repository session by primary key
    session_new,    \* session.new: the entities added and not flushed yet
    session_dirty,  \* session.dirty: the entities modified and not flushed yet
    auth,       \* the attribute "auth" of the repository session
    clock,      \* what datetime.now(UTC) returns next
    ret         \* the last call on the repository session and what it returned or raised

mazeVars == <<pc, input, maze, file, loaded, redump, nodes, edges, graph, solution, solutions>>

sqlVars == <<txn, info, pending, db, calls, owner, waiting, discarded, lost, frame, spawned>>

repoVars == <<records, session_new, session_dirty, auth, clock, ret>>

vars == <<pc, input, maze, file, loaded, redump, nodes, edges, graph, solution, solutions,
          txn, info, pending, db, calls, owner, waiting, discarded, lost, frame, spawned,
          records, session_new, session_dirty, auth, clock, ret>>

----------------------------------------------------------------------------
(* Bounds of the model. *)

\* the construction / codec inputs are grids of at most MaxGrid cells
MaxGrid == 3
\* the mazes handed to the graph builder and the solver hold at most MaxMaze cells
MaxMaze == 4
\* at most MaxHooks callbacks are registered in all
MaxHooks == 3
\* a session holds at most MaxDepth open transactions, the root included
MaxDepth == 2
\* datetime.now(UTC) is read at most MaxClock times
MaxClock == 2
\* a candidate solution holds at most MaxPath squares
MaxPath == 3

----------------------------------------------------------------------------
(* Role (role.py) and Border (border.py). *)

NONE == 0
ENEMY == 1
ENTRANCE == 2
EXIT == 3
EXTERIOR == 4
REWARD == 5
WALL == 6

Roles == {NONE, ENEMY, ENTRANCE, EXIT, EXTERIOR, REWARD, WALL}

EMPTY == 0
TOP == 1
BOTTOM == 2
LEFT == 4
RIGHT == 8

\* the bitwise operators of Python's int, on naturals
RECURSIVE BitAnd(_, _)
BitAnd(a, b) ==
    IF a = 0 \/ b = 0 THEN 0
    ELSE (IF a % 2 = 1 /\ b % 2 = 1 THEN 1 ELSE 0) + 2 * BitAnd(a \div 2, b \div 2)

RECURSIVE BitOr(_, _)
BitOr(a, b) ==
    IF a = 0 THEN b
    ELSE IF b = 0 THEN a
    ELSE (IF a % 2 = 1 \/ b % 2 = 1 THEN 1 ELSE 0) + 2 * BitOr(a \div 2, b \div 2)

\* int.bit_count()
RECURSIVE bit_count(_)
bit_count(b) ==
    IF b = 0 THEN 0 ELSE (b % 2) + bit_count(b \div 2)

\* a corner taken to be any two flags
corner_AnyTwo(b) ==
    bit_count(b) = 2

\* Border.corner
corner(b) ==
    b \in {BitOr(TOP, LEFT), BitOr(TOP, RIGHT), BitOr(BOTTOM, LEFT), BitOr(BOTTOM, RIGHT)}

\* a dead end taken to be all four flags
dead_end_AllFour(b) ==
    bit_count(b) = 4

\* Border.dead_end
dead_end(b) ==
    bit_count(b) = 3

\* Border.intersection
intersection(b) ==
    bit_count(b) < 2

----------------------------------------------------------------------------
(* Square (square.py): a frozen dataclass, equal by value. *)

Square(i, r, c, b, ro) ==
    [index |-> i, row |-> r, column |-> c, border |-> b, role |-> ro]

SetMax(S) ==
    CHOOSE x \in S : \A y \in S : y <= x

SetMin(S) ==
    CHOOSE x \in S : \A y \in S : x <= y

Range(s) ==
    {s[i] : i \in 1..Len(s)}

----------------------------------------------------------------------------
(* Maze (maze.py).  A construction either yields a Maze or raises; the     *)
(* result records which.                                                   *)

Ok(sqs) ==
    [status |-> "ok", squares |-> sqs]

Raised(err) ==
    [status |-> err, squares |-> <<>>]

\* Maze.width, for a non-empty square sequence
width(sqs) ==
    SetMax({sqs[i].column : i \in 1..Len(sqs)}) + 1

\* Maze.height, for a non-empty square sequence
height(sqs) ==
    SetMax({sqs[i].row : i \in 1..Len(sqs)}) + 1

\* validate_indices: "ok" or the error raised
validate_indices(sqs) ==
    IF \A i \in 1..Len(sqs) : sqs[i].index = i - 1
    THEN "ok"
    ELSE "AssertionError: Wrong square.index"

\* validate_rows_columns without the column assertion
validate_rows_columns_RowOnly(sqs) ==
    IF Len(sqs) = 0 THEN "ValueError: max() arg is an empty sequence"
    ELSE
        LET w == width(sqs)
            h == height(sqs)
            bad == {p \in 0..(w * h - 1) :
                        \/ p >= Len(sqs)
                        \/ sqs[p + 1].row # p \div w}
        IN  IF bad = {} THEN "ok"
            ELSE IF SetMin(bad) >= Len(sqs) THEN "IndexError: tuple index out of range"
            ELSE "AssertionError: Wrong square.row"

\* validate_rows_columns: the loop over h and w visits the flat positions
\* 0 .. height*width-1 in increasing order and stops at the first failure
validate_rows_columns(sqs) ==
    IF Len(sqs) = 0 THEN "ValueError: max() arg is an empty sequence"
    ELSE
        LET w == width(sqs)
            h == height(sqs)
            bad == {p \in 0..(w * h - 1) :
                        \/ p >= Len(sqs)
                        \/ sqs[p + 1].row # p \div w
                        \/ sqs[p + 1].column # p % w}
        IN  IF bad = {} THEN "ok"
            ELSE LET p == SetMin(bad)
                 IN  IF p >= Len(sqs) THEN "IndexError: tuple index out of range"
                     ELSE IF sqs[p + 1].row # p \div w THEN "AssertionError: Wrong square.row"
                     ELSE "AssertionError: Wrong square.column"

\* validate_entrance
validate_entrance(sqs) ==
    IF Cardinality({i \in 1..Len(sqs) : sqs[i].role = ENTRANCE}) = 1
    THEN "ok"
    ELSE "AssertionError: Must have exactly 1 entrance"

\* validate_exit asking for at least one exit instead of exactly one
validate_exit_AtLeastOne(sqs) ==
    IF Cardinality({i \in 1..Len(sqs) : sqs[i].role = EXIT}) >= 1
    THEN "ok"
    ELSE "AssertionError: Must have exactly 1 exit"

\* validate_exit
validate_exit(sqs) ==
    IF Cardinality({i \in 1..Len(sqs) : sqs[i].role = EXIT}) = 1
    THEN "ok"
    ELSE "AssertionError: Must have exactly 1 exit"

\* Maze.__post_init__ counting the entrances and exits before the other checks
MazeNew_CountsFirst(sqs) ==
    IF validate_entrance(sqs) # "ok" THEN Raised(validate_entrance(sqs))
    ELSE IF validate_exit(sqs) # "ok" THEN Raised(validate_exit(sqs))
    ELSE IF validate_indices(sqs) # "ok" THEN Raised(validate_indices(sqs))
    ELSE IF validate_rows_columns(sqs) # "ok" THEN Raised(validate_rows_columns(sqs))
    ELSE Ok(sqs)

\* Maze.__post_init__: the four checks in order, the first failure raised
MazeNew(sqs) ==
    IF validate_indices(sqs) # "ok" THEN Raised(validate_indices(sqs))
    ELSE IF validate_rows_columns(sqs) # "ok" THEN Raised(validate_rows_columns(sqs))
    ELSE IF validate_entrance(sqs) # "ok" THEN Raised(validate_entrance(sqs))
    ELSE IF validate_exit(sqs) # "ok" THEN Raised(validate_exit(sqs))
    ELSE Ok(sqs)

\* Maze.entrance: the first square of role ENTRANCE
entrance(sqs) ==
    sqs[SetMin({i \in 1..Len(sqs) : sqs[i].role = ENTRANCE})]

\* Maze.exit: the first square of role EXIT
exit(sqs) ==
    sqs[SetMin({i \in 1..Len(sqs) : sqs[i].role = EXIT})]

----------------------------------------------------------------------------
(* The binary codec (file_format.py, serializer.py).  A file is a sequence *)
(* of bytes.                                                               *)

FORMAT_VERSION == 1

\* b"MAZE"
MAGIC_NUMBER == <<77, 65, 90, 69>>

\* struct.pack("<I", n): four bytes, least significant first
PackU32(n) ==
    <<n % 256, (n \div 256) % 256, (n \div 65536) % 256, (n \div 16777216) % 256>>

\* struct.unpack("<I", b) of four bytes
UnpackU32(b) ==
    b[1] + 256 * b[2] + 65536 * b[3] + 16777216 * b[4]

\* file.read(n) at offset off: at most n bytes, fewer at the end of the file
ReadBytes(f, off, n) ==
    SubSeq(f, off + 1, IF off + n <= Len(f) THEN off + n ELSE Len(f))

\* compress shifting the role by 3 bits
compress_Shift3(square) ==
    BitOr(square.role * 8, square.border)

\* compress
compress(square) ==
    BitOr(square.role * 16, square.border)

\* decompress: Role(square_value >> 4) raises ValueError beyond WALL
decompress(square_value) ==
    [border |-> BitAnd(square_value, 15), role |-> square_value \div 16]

\* FileHeader.write
FileHeaderWrite(format_version, w, h) ==
    MAGIC_NUMBER \o <<format_version>> \o PackU32(w) \o PackU32(h)

\* FileBody.write over array("B", map(compress, squares))
FileBodyWrite(sqs) ==
    [i \in 1..Len(sqs) |-> compress(sqs[i])]

\* serializer + dump_squares: the bytes written to the path
dump_squares(w, h, sqs) ==
    FileHeaderWrite(FORMAT_VERSION, w, h) \o FileBodyWrite(sqs)

\* Maze.dump
MazeDump(sqs) ==
    dump_squares(width(sqs), height(sqs), sqs)

\* FileHeader.read: the header, or the error raised
FileHeaderRead(f) ==
    IF ReadBytes(f, 0, 4) # MAGIC_NUMBER
    THEN [status |-> "AssertionError: Unknown file type"]
    ELSE IF Len(ReadBytes(f, 4, 1)) # 1 \/ Len(ReadBytes(f, 5, 8)) # 8
    THEN [status |-> "struct.error"]
    ELSE [status |-> "ok",
          format_version |-> f[5],
          width |-> UnpackU32(ReadBytes(f, 5, 4)),
          height |-> UnpackU32(ReadBytes(f, 9, 4))]

\* FileBody.read: width*height bytes from the offset after the header
FileBodyRead(header, f) ==
    ReadBytes(f, 13, header.width * header.height)

\* deserialize: one square per byte read
deserialize(header, body) ==
    IF \E i \in 1..Len(body) : body[i] \div 16 \notin Roles
    THEN Raised("ValueError: not a valid Role")
    ELSE Ok([i \in 1..Len(body) |->
                Square(i - 1, (i - 1) \div header.width, (i - 1) % header.width,
                       decompress(body[i]).border, decompress(body[i]).role)])

\* load_squares
load_squares(f) ==
    LET header == FileHeaderRead(f)
    IN  IF header.status # "ok" THEN Raised(header.status)
        ELSE IF header.format_version # FORMAT_VERSION
        THEN Raised("ValueError: Unsupported file format version")
        ELSE deserialize(header, FileBodyRead(header, f))

\* Maze.load
MazeLoad(f) ==
    LET got == load_squares(f)
    IN  IF got.status # "ok" THEN got ELSE MazeNew(got.squares)

----------------------------------------------------------------------------
(* The graph builder (converter.py, edge.py).  A node is a Square; an Edge *)
(* is the pair <<node1, node2>>.                                           *)

\* get_nodes without the test of the border: only the squares with a role
get_nodes_RoleOnly(sqs) ==
    {sqs[i] : i \in {j \in 1..Len(sqs) : sqs[j].role \notin {EXTERIOR, WALL, NONE}}}

\* get_nodes
get_nodes(sqs) ==
    {sqs[i] : i \in {j \in 1..Len(sqs) :
        /\ sqs[j].role \notin {EXTERIOR, WALL}
        /\ \/ sqs[j].role # NONE
           \/ intersection(sqs[j].border)
           \/ dead_end(sqs[j].border)
           \/ corner(sqs[j].border)}}

\* the first loop of get_edges, entered for column x with node the square
\* reached so far: the set holding the node the scan stops at, if any
RECURSIVE FollowRight(_, _, _, _)
FollowRight(sqs, ns, node, x) ==
    IF x >= width(sqs) THEN {}
    ELSE IF BitAnd(node.border, RIGHT) # 0 THEN {}
    ELSE LET next == sqs[node.row * width(sqs) + x + 1]
         IN  IF next \in ns THEN {next} ELSE FollowRight(sqs, ns, next, x + 1)

\* the second loop of get_edges stepping one column to the right as it
\* steps down
RECURSIVE FollowDown_Drift(_, _, _, _)
FollowDown_Drift(sqs, ns, node, y) ==
    IF y >= height(sqs) THEN {}
    ELSE IF BitAnd(node.border, BOTTOM) # 0 THEN {}
    ELSE LET next == sqs[y * width(sqs) + ((node.column + 1) % width(sqs)) + 1]
         IN  IF next \in ns THEN {next} ELSE FollowDown_Drift(sqs, ns, next, y + 1)

\* the second loop of get_edges looking through the BOTTOM walls
RECURSIVE FollowDown_NoWall(_, _, _, _)
FollowDown_NoWall(sqs, ns, node, y) ==
    IF y >= height(sqs) THEN {}
    ELSE LET next == sqs[y * width(sqs) + node.column + 1]
         IN  IF next \in ns THEN {next} ELSE FollowDown_NoWall(sqs, ns, next, y + 1)

\* the second loop of get_edges, entered for row y
RECURSIVE FollowDown(_, _, _, _)
FollowDown(sqs, ns, node, y) ==
    IF y >= height(sqs) THEN {}
    ELSE IF BitAnd(node.border, BOTTOM) # 0 THEN {}
    ELSE LET next == sqs[y * width(sqs) + node.column + 1]
         IN  IF next \in ns THEN {next} ELSE FollowDown(sqs, ns, next, y + 1)

\* get_edges
get_edges(sqs, ns) ==
    UNION {{<<source_node, t>> : t \in FollowRight(sqs, ns, source_node, source_node.column + 1)}
               \cup {<<source_node, t>> : t \in FollowDown(sqs, ns, source_node, source_node.row + 1)}
           : source_node \in ns}

\* Edge.flip
flip(edge) ==
    <<edge[2], edge[1]>>

\* get_directed_edges without the flipped edges
get_directed_edges_NoFlip(sqs, ns) ==
    get_edges(sqs, ns)

\* get_directed_edges
get_directed_edges(sqs, ns) ==
    LET es == get_edges(sqs, ns)
    IN  es \cup {flip(edge) : edge \in es}

\* Edge.distance without the root: the sum of the squared differences
distance_Squared(edge) ==
    LET dr == edge[1].row - edge[2].row
        dc == edge[1].column - edge[2].column
    IN  dr * dr + dc * dc

\* Edge.distance: math.dist of (row, column) of the two nodes, the root of
\* the sum of the squared differences; the integer part of it, which is all
\* of it when the two nodes share a row or a column
distance(edge) ==
    LET dr == edge[1].row - edge[2].row
        dc == edge[1].column - edge[2].column
        sq == dr * dr + dc * dc
    IN  CHOOSE d \in 0..sq : d * d <= sq /\ (d + 1) * (d + 1) > sq

\* Edge.weight looking at the role of node1
weight_BySource(edge, bonus, penalty) ==
    IF edge[1].role = REWARD THEN distance(edge) - bonus
    ELSE IF edge[1].role = ENEMY THEN distance(edge) + penalty
    ELSE distance(edge)

\* Edge.weight(bonus, penalty)
weight(edge, bonus, penalty) ==
    IF edge[2].role = REWARD THEN distance(edge) - bonus
    ELSE IF edge[2].role = ENEMY THEN distance(edge) + penalty
    ELSE distance(edge)

\* the defaults of Edge.weight
DefaultBonus == 1
DefaultPenalty == 2

\* make_graph: the DiGraph built from the weighted directed edges; its nodes
\* are the endpoints of its edges
make_graph(sqs) ==
    LET es == get_directed_edges(sqs, get_nodes(sqs))
    IN  [nodes |-> {e[1] : e \in es} \cup {e[2] : e \in es},
         edges |-> es,
         weight |-> [e \in es |-> weight(e, DefaultBonus, DefaultPenalty)]]

----------------------------------------------------------------------------
(* Solution (solution.py).                                                 *)

\* validate_corridor
validate_corridor(current, following) ==
    current.row = following.row \/ current.column = following.column

\* Solution.__post_init__ without the corridor check
SolutionNew_EndsOnly(sqs) ==
    IF sqs[1].role # ENTRANCE THEN Raised("AssertionError")
    ELSE IF sqs[Len(sqs)].role # EXIT THEN Raised("AssertionError")
    ELSE Ok(sqs)

\* Solution.__post_init__ on a non-empty tuple of squares: the Solution, or
\* the AssertionError raised
SolutionNew(sqs) ==
    IF sqs[1].role # ENTRANCE THEN Raised("AssertionError")
    ELSE IF sqs[Len(sqs)].role # EXIT THEN Raised("AssertionError")
    ELSE IF \E i \in 1..(Len(sqs) - 1) : ~validate_corridor(sqs[i], sqs[i + 1])
    THEN Raised("AssertionError: Squares must lie on the same row or column")
    ELSE Ok(sqs)

----------------------------------------------------------------------------
(* The solver (solver.py) and the shortest-path search it calls: Dijkstra's*)
(* algorithm from the source, recording for every node the predecessors on *)
(* its cheapest paths, and the enumeration of the paths those predecessors *)
(* spell out.                                                              *)

\* one round of the search: the cheapest node of the fringe is settled and
\* its outgoing edges are relaxed
RECURSIVE DijkstraLoop(_, _, _, _)
DijkstraLoop(G, dist, seen, pred) ==
    LET fringe == (DOMAIN seen) \ (DOMAIN dist)
    IN  IF fringe = {} THEN [status |-> "ok", dist |-> dist, pred |-> pred]
        ELSE
            LET v == CHOOSE n \in fringe : \A m \in fringe : seen[n] <= seen[m]
                dist2 == [n \in (DOMAIN dist) \cup {v} |-> IF n = v THEN seen[v] ELSE dist[n]]
                succ == {e[2] : e \in {f \in G.edges : f[1] = v}}
                vu(u) == dist2[v] + G.weight[<<v, u>>]
                better(u) == u \notin DOMAIN dist2 /\ (u \notin DOMAIN seen \/ vu(u) < seen[u])
                seen2 == [u \in (DOMAIN seen) \cup succ |->
                             IF u \in succ /\ better(u) THEN vu(u) ELSE seen[u]]
                pred2 == [u \in (DOMAIN seen) \cup succ |->
                             IF u \notin succ THEN pred[u]
                             ELSE IF u \in DOMAIN dist2
                                  THEN IF vu(u) = dist2[u] THEN Append(pred[u], v) ELSE pred[u]
                             ELSE IF better(u) THEN <<v>>
                             ELSE IF vu(u) = seen[u] THEN Append(pred[u], v)
                             ELSE pred[u]]
            IN  IF \E u \in succ : u \in DOMAIN dist2 /\ vu(u) < dist2[u]
                THEN [status |-> "ValueError: Contradictory paths found", dist |-> dist2, pred |-> pred]
                ELSE DijkstraLoop(G, dist2, seen2, pred2)

\* the search from source
Dijkstra(G, source) ==
    DijkstraLoop(G, [n \in {} |-> 0], [n \in {source} |-> 0], [n \in {source} |-> <<>>])

\* the paths from source to node that the predecessor lists spell out, each
\* node at most once on a path; on is the set of nodes already on the path
RECURSIVE BuildPaths(_, _, _, _, _)
BuildPaths(pred, source, node, on, i) ==
    IF i = 0
    THEN (IF node = source THEN <<<<node>>>> ELSE <<>>) \o BuildPaths(pred, source, node, on, 1)
    ELSE IF i > Len(pred[node]) THEN <<>>
    ELSE LET p == pred[node][i]
             via == IF p \in on THEN <<>>
                    ELSE BuildPaths(pred, source, p, on \cup {p}, 0)
         IN  [k \in 1..Len(via) |-> Append(via[k], node)]
                 \o BuildPaths(pred, source, node, on, i + 1)

\* the weighted search that nx.shortest_path and nx.all_shortest_paths run
\* with weight="weight": the cheapest paths from source to target, or the
\* exception raised
ShortestPaths(G, source, target, missing) ==
    IF missing THEN [status |-> "NodeNotFound", paths |-> <<>>]
    ELSE LET r == Dijkstra(G, source)
         IN  IF r.status # "ok" THEN [status |-> r.status, paths |-> <<>>]
             ELSE IF target \notin DOMAIN r.pred
             THEN [status |-> "NetworkXNoPath", paths |-> <<>>]
             ELSE [status |-> "ok", paths |-> BuildPaths(r.pred, source, target, {target}, 0)]

\* the same search with every edge counted as one hop, as run without weight
UnweightedPaths(G, source, target, missing) ==
    ShortestPaths([G EXCEPT !.weight = [e \in G.edges |-> 1]], source, target, missing)

\* the subclasses of nx.NetworkXException the search raises
NetworkXExceptions ==
    {"NodeNotFound", "NetworkXNoPath"}

\* nx.shortest_path called without weight="weight"
nx_shortest_path_NoWeight(G, source, target) ==
    UnweightedPaths(G, source, target, source \notin G.nodes \/ target \notin G.nodes)

\* nx.shortest_path(G, source, target, weight="weight")
nx_shortest_path(G, source, target) ==
    ShortestPaths(G, source, target, source \notin G.nodes \/ target \notin G.nodes)

\* nx.all_shortest_paths called without weight="weight"
nx_all_shortest_paths_NoWeight(G, source, target) ==
    UnweightedPaths(G, source, target, source \notin G.nodes)

\* nx.all_shortest_paths(G, source, target, weight="weight")
nx_all_shortest_paths(G, source, target) ==
    ShortestPaths(G, source, target, source \notin G.nodes)

NoSolution ==
    [status |-> "None", squares |-> <<>>]

\* the try block of solve around a search that ends as r: the possible
\* results, one for each path the search may return
solve_try(r) ==
    IF r.status \in NetworkXExceptions THEN {NoSolution}
    ELSE IF r.status # "ok" THEN {Raised(r.status)}
    ELSE {SolutionNew(r.paths[k]) : k \in 1..Len(r.paths)}

\* solve
solve(sqs) ==
    solve_try(nx_shortest_path(make_graph(sqs), entrance(sqs), exit(sqs)))

\* solve_all catching nx.NetworkXNoPath alone
solve_all_CatchNoPath(sqs) ==
    LET r == ShortestPaths(make_graph(sqs), entrance(sqs), exit(sqs),
                           entrance(sqs) \notin make_graph(sqs).nodes)
    IN  IF r.status = "NetworkXNoPath" THEN [status |-> "ok", list |-> <<>>]
        ELSE IF r.status # "ok" THEN [status |-> r.status, list |-> <<>>]
        ELSE [status |-> "ok", list |-> r.paths]

\* the try block of solve_all around a search that ends as r: the list of
\* Solutions, or the error raised while building it
solve_all_try(r) ==
    IF r.status \in NetworkXExceptions THEN [status |-> "ok", list |-> <<>>]
    ELSE IF r.status # "ok" THEN [status |-> r.status, list |-> <<>>]
    ELSE IF \E k \in 1..Len(r.paths) : SolutionNew(r.paths[k]).status # "ok"
    THEN [status |-> "AssertionError", list |-> <<>>]
    ELSE [status |-> "ok", list |-> [k \in 1..Len(r.paths) |-> r.paths[k]]]

\* solve_all
solve_all(sqs) ==
    solve_all_try(nx_all_shortest_paths(make_graph(sqs), entrance(sqs), exit(sqs)))

----------------------------------------------------------------------------
(* The commit hooks of dbkit.sql (callbacks.py, listeners.py).  The entry  *)
(* "on_commit_hooks" of session.info is the record [present, hooks]: the   *)
(* key is in the dictionary or not, and the list it holds.  A callback is  *)
(* the number of its registration.                                         *)

Sessions ==
    {"s1", "s2"}

Objects ==
    {"user1"}

\* the sessions that objects are added to
Adders ==
    {"s1"}

\* session.info without the key
NoHooks ==
    [present |-> FALSE, hooks |-> <<>>]

\* on_commit putting the callback at the front of the list
on_commit_Prepend(inf, callback) ==
    [present |-> TRUE, hooks |-> <<callback>> \o inf.hooks]

\* on_commit(current_session, callback): setdefault(..., []).append(callback)
on_commit(inf, callback) ==
    [present |-> TRUE, hooks |-> Append(inf.hooks, callback)]

\* the loop of process_hooks: pop(0) and call, until the list is empty
RECURSIVE HookCalls(_, _)
HookCalls(hooks, current_session) ==
    IF hooks = <<>> THEN <<>>
    ELSE <<<<Head(hooks), current_session>>>> \o HookCalls(Tail(hooks), current_session)

\* process_hooks running the callbacks at the commit of any transaction
process_hooks_AnyCommit(inf, current_session, in_nested_transaction) ==
    [info |-> [inf EXCEPT !.hooks = <<>>],
     calls |-> HookCalls(inf.hooks, current_session)]

\* process_hooks, the listener of "after_commit": the entry it leaves and
\* the calls it makes
process_hooks(inf, current_session, in_nested_transaction) ==
    IF in_nested_transaction
    THEN [info |-> inf, calls |-> <<>>]
    ELSE [info |-> [inf EXCEPT !.hooks = <<>>],
          calls |-> HookCalls(inf.hooks, current_session)]

\* remove_remaining_hooks resetting the entry at the end of a nested
\* transaction instead of the root one
remove_remaining_hooks_NestedOnly(inf, has_parent) ==
    IF has_parent THEN NoHooks ELSE inf

\* remove_remaining_hooks, the listener of "after_transaction_end"
remove_remaining_hooks(inf, has_parent) ==
    IF ~has_parent THEN NoHooks ELSE inf

\* one transaction commits: "after_commit" and then "after_transaction_end"
\* are dispatched; a nested transaction is the one with a parent
CommitOne(inf, current_session, nested) ==
    LET done == process_hooks(inf, current_session, nested)
    IN  [info |-> remove_remaining_hooks(done.info, nested), calls |-> done.calls]

\* session.commit() with depth transactions open: the nested ones commit,
\* innermost first, and then the root (begun on the spot when none is open)
RECURSIVE CommitChain(_, _, _)
CommitChain(inf, current_session, depth) ==
    IF depth <= 1 THEN CommitOne(inf, current_session, FALSE)
    ELSE LET inner == CommitOne(inf, current_session, TRUE)
             outer == CommitChain(inner.info, current_session, depth - 1)
         IN  [info |-> outer.info, calls |-> inner.calls \o outer.calls]

\* session.rollback() with depth transactions open: each one ends
RECURSIVE RollbackChain(_, _)
RollbackChain(inf, depth) ==
    IF depth <= 1 THEN remove_remaining_hooks(inf, FALSE)
    ELSE RollbackChain(remove_remaining_hooks(inf, TRUE), depth - 1)

\* process_hooks is not running
NoFrame ==
    [session |-> "none", fn |-> 0]

\* no session has a transaction, a hook or an object
SqlIdle ==
    /\ txn = [s \in Sessions |-> <<>>]
    /\ info = [s \in Sessions |-> NoHooks]
    /\ pending = [s \in Sessions |-> <<>>]
    /\ db = {}
    /\ calls = <<>>
    /\ owner = <<>>
    /\ waiting = [s \in Sessions |-> <<>>]
    /\ discarded = {}
    /\ lost = {}
    /\ frame = NoFrame
    /\ spawned = {}

----------------------------------------------------------------------------
(* The Repository of sanctumlabs_dbkit.sql (repository.py) and the flush   *)
(* listener of dbkit.sql (listeners.py, utils.py).  An entity is the pair  *)
(* of its model and its primary key; the primary keys of a model are the   *)
(* numbers of its entities in the order of their creation.                 *)

Models ==
    {"User", "OutboxEvent"}

\* the models that are subclasses of AbstractBaseModel
AbstractBaseModels ==
    {"User"}

\* the models that are subclasses of BaseModel
BaseModels ==
    {"User"}

\* the users a session authenticates
Users ==
    {"AdminUser"}

\* find returns no entity
NoEntity ==
    <<>>

None ==
    "None"

\* user.user_uuid
user_uuid(user) ==
    "uuid of " \o user

\* model.not_deleted_value(): the deleted_at of an entity that is not deleted
not_deleted_value(model) ==
    0

\* model(**kwargs): the entity that create adds
NewRow(model) ==
    [deleted_at |-> not_deleted_value(model), updated_by |-> None]

\* set_updated_by(user, entity)
set_updated_by(user, entity) ==
    [entity EXCEPT !.updated_by = IF user # None THEN user_uuid(user) ELSE None]

\* before_flush setting updated_by whether or not the session has "auth"
before_flush_NoAuthCheck(recs, new, dirty, a) ==
    [m \in Models |->
        [pk \in 1..Len(recs[m]) |->
            IF <<m, pk>> \in new \cup dirty /\ m \in BaseModels
            THEN set_updated_by(IF a = "absent" THEN None ELSE a, recs[m][pk])
            ELSE recs[m][pk]]]

\* before_flush, the listener of "before_flush": a is "absent" when the
\* session has no attribute "auth"
before_flush(recs, new, dirty, a) ==
    IF a # "absent"
    THEN [m \in Models |->
             [pk \in 1..Len(recs[m]) |->
                 IF <<m, pk>> \in new \cup dirty /\ m \in BaseModels
                 THEN set_updated_by(a, recs[m][pk])
                 ELSE recs[m][pk]]]
    ELSE recs

\* session.flush(), also the one a query or a commit of the session starts
\* with: "before_flush" is dispatched when something is new or dirty
flush(recs, new, dirty, a) ==
    IF new \cup dirty = {} THEN recs ELSE before_flush(recs, new, dirty, a)

\* Repository._supports_soft_deletion(model)
supports_soft_deletion(model) ==
    model \in AbstractBaseModels

\* query ignoring include_deleted
query_AlwaysAll(recs, model, include_deleted) ==
    1..Len(recs[model])

\* Repository.query(include_deleted): the entities its statement selects
query(recs, model, include_deleted) ==
    {pk \in 1..Len(recs[model]) :
        (~include_deleted /\ supports_soft_deletion(model))
            => recs[model][pk].deleted_at = not_deleted_value(model)}

\* Repository.find(pk, include_deleted): <<entity>>, or NoEntity for None
find(recs, model, pk, include_deleted) ==
    IF pk \in query(recs, model, include_deleted) THEN <<pk>> ELSE NoEntity

\* find_or_raise raising only for a primary key that no entity has
find_or_raise_DeletedToo(recs, model, pk, include_deleted) ==
    IF pk \notin 1..Len(recs[model])
    THEN [status |-> "ModelNotFoundError", found |-> NoEntity]
    ELSE [status |-> "ok", found |-> <<pk>>]

\* Repository.find_or_raise(pk, include_deleted)
find_or_raise(recs, model, pk, include_deleted) ==
    LET entity == find(recs, model, pk, include_deleted)
    IN  IF entity = NoEntity
        THEN [status |-> "ModelNotFoundError", found |-> NoEntity]
        ELSE [status |-> "ok", found |-> entity]

\* Repository.all(include_deleted)
all(recs, model, include_deleted) ==
    query(recs, model, include_deleted)

\* the elements of a set of numbers, the largest first
Descending(S) ==
    [i \in 1..Cardinality(S) |->
        CHOOSE x \in S : Cardinality({y \in S : y > x}) = i - 1]

\* Repository.list(limit, offset, include_deleted); created_at grows with
\* the primary key
list(recs, model, limit, offset, include_deleted) ==
    LET rows == Descending(query(recs, model, include_deleted))
        last == IF offset + limit < Len(rows) THEN offset + limit ELSE Len(rows)
    IN  SubSeq(rows, offset + 1, last)

\* delete stamping the entity whether or not it is deleted already
delete_Restamp(recs, new, dirty, a, model, pk, now) ==
    IF ~supports_soft_deletion(model)
    THEN [status |-> "UnsupportedModelOperationError",
          records |-> recs, new |-> new, dirty |-> dirty]
    ELSE LET flushed == flush(recs, new, dirty, a)
             entity == find(flushed, model, pk, TRUE)
         IN  IF entity # NoEntity
             THEN [status |-> "ok",
                   records |-> [flushed EXCEPT ![model][entity[1]].deleted_at = now],
                   new |-> {}, dirty |-> {<<model, entity[1]>>}]
             ELSE [status |-> "ok", records |-> flushed, new |-> {}, dirty |-> {}]

\* Repository.delete(pk) at the time now, in a session with the entities
\* recs of which new and dirty are not flushed: what it raises and the
\* session it leaves.  Its find flushes the session before it selects.
delete(recs, new, dirty, a, model, pk, now) ==
    IF ~supports_soft_deletion(model)
    THEN [status |-> "UnsupportedModelOperationError",
          records |-> recs, new |-> new, dirty |-> dirty]
    ELSE LET flushed == flush(recs, new, dirty, a)
             entity == find(flushed, model, pk, FALSE)
         IN  IF entity # NoEntity
             THEN [status |-> "ok",
                   records |-> [flushed EXCEPT ![model][entity[1]].deleted_at = now],
                   new |-> {}, dirty |-> {<<model, entity[1]>>}]
             ELSE [status |-> "ok", records |-> flushed, new |-> {}, dirty |-> {}]

\* no call was made yet
NoCall ==
    [op |-> "none", model |-> "none", pk |-> 0, include_deleted |-> FALSE,
     status |-> "ok", found |-> NoEntity, rows |-> {}]

\* a session without entities and without "auth"
RepoIdle ==
    /\ records = [m \in Models |-> <<>>]
    /\ session_new = {}
    /\ session_dirty = {}
    /\ auth = "absent"
    /\ clock = 1
    /\ ret = NoCall

----------------------------------------------------------------------------
(* The inputs of the construction / codec sessions.                        *)

\* the row-major squares of a w x h grid whose cells (border, role) are cell
Grid(w, h, cell) ==
    [i \in 1..(w * h) |->
        Square(i - 1, (i - 1) \div w, (i - 1) % w, cell[i][1], cell[i][2])]

\* every row-major grid of at most n cells with cells drawn from cells
Grids(n, cells) ==
    UNION {{Grid(d[1], d[2], cell) : cell \in [1..(d[1] * d[2]) -> cells]} :
              d \in {e \in (1..n) \X (1..n) : e[1] * e[2] <= n}}

\* the borders and roles of the squares a caller supplies to Maze(...)
CodecCells ==
    {BitOr(TOP, LEFT), BitOr(BOTTOM, RIGHT)} \X {NONE, ENTRANCE, EXIT}

\* a grid, or a grid with one field of one square changed, one square
\* appended after the last, or the last square left out
Variants(s) ==
    LET w == width(s)
        h == height(s)
    IN  {s}
        \cup {[s EXCEPT ![i].index = v] : i \in 1..Len(s), v \in 0..Len(s)}
        \cup {[s EXCEPT ![i].row = v] : i \in 1..Len(s), v \in 0..h}
        \cup {[s EXCEPT ![i].column = v] : i \in 1..Len(s), v \in 0..w}
        \cup {Append(s, Square(Len(s), r, c, cell[1], cell[2])) :
                 r \in 0..h, c \in 0..w, cell \in CodecCells}
        \cup {SubSeq(s, 1, Len(s) - 1)}

\* the payload bytes of the supplied files: three well-formed squares and one
\* byte whose role bits name no Role
StreamBytes ==
    {compress(Square(0, 0, 0, BitOr(TOP, LEFT), ENTRANCE)),
     compress(Square(0, 0, 0, BitOr(BOTTOM, RIGHT), EXIT)),
     compress(Square(0, 0, 0, BitOr(TOP, BOTTOM), NONE)),
     (WALL + 1) * 16}

\* the headers of the supplied files: well-formed, of another magic, of
\* another version
StreamHeaders ==
    {FileHeaderWrite(v, w, h) : v \in {FORMAT_VERSION, FORMAT_VERSION + 1},
                                w \in 0..MaxGrid, h \in 0..MaxGrid}
    \cup {<<77, 65, 90, 70>> \o <<v>> \o PackU32(w) \o PackU32(h) :
             v \in {FORMAT_VERSION, FORMAT_VERSION + 1}, w \in 1..MaxGrid, h \in {1}}

\* the payloads of the supplied files
StreamBodies ==
    UNION {[1..n -> StreamBytes] : n \in 0..MaxGrid}

\* files that end inside the header, of this version and of another
ShortStreams ==
    {SubSeq(FileHeaderWrite(v, 1, 1), 1, n) :
        v \in {FORMAT_VERSION, FORMAT_VERSION + 1}, n \in 0..12}

Unset ==
    Raised("unset")

NoSolutions ==
    [status |-> "unset", list |-> <<>>]

NoGraph ==
    [nodes |-> {}, edges |-> {}, weight |-> <<>>]

----------------------------------------------------------------------------
(* The construction / codec session: the caller builds a Maze from squares,*)
(* dumps it and loads the file again; or loads a supplied file and dumps   *)
(* the Maze it got.                                                        *)

Init ==
    /\ pc = "start"
    /\ \/ \E g \in Grids(MaxGrid, CodecCells) : \E s \in Variants(g) :
              input = [kind |-> "squares", squares |-> s, bytes |-> <<>>]
       \/ \E hd \in StreamHeaders : \E body \in StreamBodies :
              input = [kind |-> "bytes", squares |-> <<>>, bytes |-> hd \o body]
       \/ \E b \in ShortStreams :
              input = [kind |-> "bytes", squares |-> <<>>, bytes |-> b]
    /\ maze = Unset
    /\ file = input.bytes
    /\ loaded = Unset
    /\ redump = <<>>
    /\ nodes = {}
    /\ edges = {}
    /\ graph = NoGraph
    /\ solution = Unset
    /\ solutions = NoSolutions
    /\ SqlIdle
    /\ RepoIdle

\* Maze(squares=input)
Construct ==
    /\ pc = "start"
    /\ input.kind = "squares"
    /\ maze' = MazeNew(input.squares)
    /\ pc' = "constructed"
    /\ UNCHANGED <<input, file, loaded, redump, nodes, edges, graph, solution, solutions>>
    /\ UNCHANGED <<sqlVars, repoVars>>

\* maze.dump(path)
Dump ==
    /\ pc = "constructed"
    /\ maze.status = "ok"
    /\ file' = MazeDump(maze.squares)
    /\ pc' = "dumped"
    /\ UNCHANGED <<input, maze, loaded, redump, nodes, edges, graph, solution, solutions>>
    /\ UNCHANGED <<sqlVars, repoVars>>

\* Maze.load(path), of the file just dumped or of the supplied file
Load ==
    /\ \/ pc = "dumped"
       \/ pc = "start" /\ input.kind = "bytes"
    /\ loaded' = MazeLoad(file)
    /\ pc' = "loaded"
    /\ UNCHANGED <<input, maze, file, redump, nodes, edges, graph, solution, solutions>>
    /\ UNCHANGED <<sqlVars, repoVars>>

\* loaded.dump(path)
Redump ==
    /\ pc = "loaded"
    /\ loaded.status = "ok"
    /\ redump' = MazeDump(loaded.squares)
    /\ pc' = "redumped"
    /\ UNCHANGED <<input, maze, file, loaded, nodes, edges, graph, solution, solutions>>
    /\ UNCHANGED <<sqlVars, repoVars>>

Next ==
    \/ Construct
    \/ Dump
    \/ Load
    \/ Redump

Spec ==
    Init /\ [][Next]_vars

----------------------------------------------------------------------------
(* The byte session: compress on one square of any border and role and     *)
(* decompress on the byte it gave, or decompress on a byte of any value.   *)

SquareInit ==
    /\ \/ /\ pc = "square"
          /\ \E b \in 0..15 : \E ro \in Roles :
                 input = [kind |-> "squares",
                          squares |-> <<Square(0, 0, 0, b, ro)>>,
                          bytes |-> <<>>]
       \/ /\ pc = "compressed"
          /\ \E v \in 0..255 :
                 input = [kind |-> "bytes", squares |-> <<>>, bytes |-> <<v>>]
    /\ maze = Unset
    /\ file = input.bytes
    /\ loaded = Unset
    /\ redump = <<>>
    /\ nodes = {}
    /\ edges = {}
    /\ graph = NoGraph
    /\ solution = Unset
    /\ solutions = NoSolutions
    /\ SqlIdle
    /\ RepoIdle

\* compress(square)
Compress ==
    /\ pc = "square"
    /\ file' = <<compress(input.squares[1])>>
    /\ pc' = "compressed"
    /\ UNCHANGED <<input, maze, loaded, redump, nodes, edges, graph, solution, solutions>>
    /\ UNCHANGED <<sqlVars, repoVars>>

\* decompress(square_value): the pair (border, role), or the ValueError of
\* Role(...) on a value that names no Role
Decompress ==
    /\ pc = "compressed"
    /\ loaded' = IF file[1] \div 16 \in Roles
                 THEN Ok(<<decompress(file[1])>>)
                 ELSE Raised("ValueError: not a valid Role")
    /\ pc' = "decompressed"
    /\ UNCHANGED <<input, maze, file, redump, nodes, edges, graph, solution, solutions>>
    /\ UNCHANGED <<sqlVars, repoVars>>

SquareNext ==
    \/ Compress
    \/ Decompress

SquareSpec ==
    SquareInit /\ [][SquareNext]_vars

\* C14: compress gives the byte role * 16 + border, with TOP = 1, BOTTOM = 2,
\* LEFT = 4, RIGHT = 8 and NONE = 0 ... WALL = 6; the byte lies in 0..111;
\* decompress of it gives back the border and the role of the square.
C14_CompressDecompress ==
    /\ <<TOP, BOTTOM, LEFT, RIGHT>> = <<1, 2, 4, 8>>
    /\ <<NONE, ENEMY, ENTRANCE, EXIT, EXTERIOR, REWARD, WALL>> = <<0, 1, 2, 3, 4, 5, 6>>
    /\ (input.kind = "squares" /\ pc \in {"compressed", "decompressed"}) =>
           /\ file = <<input.squares[1].role * 16 + input.squares[1].border>>
           /\ file[1] \in 0..111
    /\ (input.kind = "squares" /\ pc = "decompressed") =>
           loaded = Ok(<<[border |-> input.squares[1].border,
                          role |-> input.squares[1].role]>>)

\* a WALL square walled on all four sides went through the byte 111
C14_Witness ==
    /\ pc = "decompressed"
    /\ input.kind = "squares"
    /\ input.squares[1].role = WALL
    /\ input.squares[1].border = 15
    /\ file = <<111>>
    /\ loaded.status = "ok"

----------------------------------------------------------------------------
(* The mazes handed to the graph builder and the solver: every one is a    *)
(* square sequence the Maze constructor accepts -- a w x h grid in         *)
(* row-major order, followed by at most one more square, which the         *)
(* constructor does not look at beyond its index and roles.                *)

\* the shapes <<w, h, k>>: a w x h grid and k trailing squares, at most n
\* squares in all
Shapes(n) ==
    {d \in (1..n) \X (1..n) \X {0, 1} : d[1] * d[2] + d[3] <= n /\ d[1] * d[2] + d[3] >= 2}

\* the cells of m squares: the entrance at ie, the exit at ix, the others in
\* order
PlacedCells(m, ie, ix, ce, cx, others) ==
    [i \in 1..m |->
        IF i = ie THEN ce
        ELSE IF i = ix THEN cx
        ELSE others[i - (IF ie < i THEN 1 ELSE 0) - (IF ix < i THEN 1 ELSE 0)]]

\* the squares of shape d: the grid in row-major order, the trailing square
\* at row at[1], column at[2]
MazeSquares(d, at, cell) ==
    [i \in 1..(d[1] * d[2] + d[3]) |->
        IF i <= d[1] * d[2]
        THEN Square(i - 1, (i - 1) \div d[1], (i - 1) % d[1], cell[i][1], cell[i][2])
        ELSE Square(i - 1, at[1], at[2], cell[i][1], cell[i][2])]

\* where the trailing square of shape d claims to be: at any cell of the
\* grid, or at its first cell only
Places(d, anywhere) ==
    IF d[3] = 0 \/ ~anywhere THEN {<<0, 0>>} ELSE (0..(d[2] - 1)) \X (0..(d[1] - 1))

\* the session starts with a Maze built from one of the mazes of at most n
\* squares whose entrance, exit and other cells come from the given sets
MazeInit(n, anywhere, entCells, exitCells, freeCells) ==
    /\ pc = "constructed"
    /\ \E d \in Shapes(n) : \E at \in Places(d, anywhere) :
           LET m == d[1] * d[2] + d[3]
           IN  \E ie \in 1..m : \E ix \in (1..m) \ {ie} :
               \E ce \in entCells : \E cx \in exitCells :
               \E others \in [1..(m - 2) -> freeCells] :
                   input = [kind |-> "squares",
                            squares |-> MazeSquares(d, at, PlacedCells(m, ie, ix, ce, cx, others)),
                            bytes |-> <<>>]
    /\ maze = MazeNew(input.squares)
    /\ maze.status = "ok"
    /\ file = <<>>
    /\ loaded = Unset
    /\ redump = <<>>
    /\ nodes = {}
    /\ edges = {}
    /\ graph = NoGraph
    /\ solution = Unset
    /\ solutions = NoSolutions
    /\ SqlIdle
    /\ RepoIdle

\* the session starts with a Maze built from one of the given square
\* sequences
MazeFrom(S) ==
    /\ pc = "constructed"
    /\ \E s \in S : input = [kind |-> "squares", squares |-> s, bytes |-> <<>>]
    /\ maze = MazeNew(input.squares)
    /\ maze.status = "ok"
    /\ file = <<>>
    /\ loaded = Unset
    /\ redump = <<>>
    /\ nodes = {}
    /\ edges = {}
    /\ graph = NoGraph
    /\ solution = Unset
    /\ solutions = NoSolutions
    /\ SqlIdle
    /\ RepoIdle

----------------------------------------------------------------------------
(* The graph session: make_graph on a Maze whose role-less squares range   *)
(* over every border, next to open squares of every role.                  *)

\* an entrance or exit open to the east and south, or closed to both
EndBits ==
    {EMPTY, BitOr(BOTTOM, RIGHT)}

\* squares without a role of every border, open squares of every role, and
\* EXTERIOR and WALL squares walled on three sides
GraphFreeCells ==
    ((0..15) \X {NONE})
    \cup ({EMPTY} \X {ENEMY, EXTERIOR, REWARD, WALL})
    \cup ({BitOr(BitOr(TOP, BOTTOM), LEFT)} \X {EXTERIOR, WALL})

GraphInit ==
    MazeInit(MaxGrid, TRUE, EndBits \X {ENTRANCE}, EndBits \X {EXIT}, GraphFreeCells)

\* make_graph(maze), with the nodes and the undirected edges it computes
MakeGraph ==
    /\ pc = "constructed"
    /\ nodes' = get_nodes(maze.squares)
    /\ edges' = get_edges(maze.squares, get_nodes(maze.squares))
    /\ graph' = make_graph(maze.squares)
    /\ pc' = "graph"
    /\ UNCHANGED <<input, maze, file, loaded, redump, solution, solutions>>
    /\ UNCHANGED <<sqlVars, repoVars>>

GraphNext ==
    MakeGraph

GraphSpec ==
    GraphInit /\ [][GraphNext]_vars

----------------------------------------------------------------------------
(* Claims on the graph builder, checked under GraphSpec.                   *)

\* border values that are a corner, a dead end or an intersection
Junctions ==
    {b \in 0..15 : corner(b) \/ dead_end(b) \/ intersection(b)}

EastOf(s, t) ==
    {q \in Range(maze.squares) :
        q.row = s.row /\ s.column < q.column /\ q.column < t.column}

SouthOf(s, t) ==
    {q \in Range(maze.squares) :
        q.column = s.column /\ s.row < q.row /\ q.row < t.row}

SeesEast(s, t) ==
    /\ t.row = s.row
    /\ t.column > s.column
    /\ \A q \in {s} \cup EastOf(s, t) : BitAnd(q.border, RIGHT) = 0
    /\ EastOf(s, t) \cap nodes = {}

SeesSouth(s, t) ==
    /\ t.column = s.column
    /\ t.row > s.row
    /\ \A q \in {s} \cup SouthOf(s, t) : BitAnd(q.border, BOTTOM) = 0
    /\ SouthOf(s, t) \cap nodes = {}

\* get_edges produces (s, t) iff both are nodes and s sees t to the east or
\* to the south; no node is the source of two edges of one direction
EdgesAreSightLines ==
    /\ edges = {e \in nodes \X nodes : SeesEast(e[1], e[2]) \/ SeesSouth(e[1], e[2])}
    /\ \A e \in edges, f \in edges :
           (e[1] = f[1] /\ e[2] # f[2]) =>
               (e[1].row = e[2].row) # (f[1].row = f[2].row)

\* C10: get_edges produces the edge (s, t) if and only if s and t are nodes,
\* t lies in the row of s at a larger column (or in its column at a larger
\* row), no square from s up to but excluding t on that line has its RIGHT
\* (resp. BOTTOM) flag set and no square strictly between the two is a node;
\* each node is the source of at most one eastward and one southward edge.
C10_EdgesAreSightLines ==
    pc = "graph" => EdgesAreSightLines

\* the same for the mazes of exactly width * height squares
EdgesOnGrids ==
    (pc = "graph" /\ Len(maze.squares) = width(maze.squares) * height(maze.squares))
        => EdgesAreSightLines

\* C11: the directed edges of the graph are the undirected edges of
\* get_edges and their flips: for every undirected edge (a, b) the graph
\* holds a -> b and b -> a, and it holds no directed edge whose endpoints
\* get_edges did not join.
C11_DirectedEdgesAreSymmetricClosure ==
    pc = "graph" =>
        /\ \A e \in edges : e \in graph.edges /\ <<e[2], e[1]>> \in graph.edges
        /\ \A d \in graph.edges : d \in edges \/ <<d[2], d[1]>> \in edges

\* the graph holds two undirected edges in both directions
C11_Witness ==
    /\ pc = "graph"
    /\ Cardinality(edges) = 2
    /\ Cardinality(graph.edges) = 4

\* |x|
Abs(x) ==
    IF x < 0 THEN -x ELSE x

\* the squares A (no role) and B (REWARD) of one row, 3 columns apart
SquareA ==
    Square(0, 0, 0, EMPTY, NONE)

SquareB ==
    Square(3, 0, 3, EMPTY, REWARD)

\* C12: every directed edge a -> b of the graph weighs distance(a, b) - 1
\* when b is a REWARD, distance(a, b) + 2 when b is an ENEMY and
\* distance(a, b) otherwise, whatever the role of a; for A without a role
\* and B a REWARD 3 units apart, A -> B weighs 2 and B -> A weighs 3.
C12_WeightByDestination ==
    /\ pc = "graph" =>
           \A e \in graph.edges :
               LET d == Abs(e[1].row - e[2].row) + Abs(e[1].column - e[2].column)
               IN  /\ e[1].row = e[2].row \/ e[1].column = e[2].column
                   /\ graph.weight[e] = CASE e[2].role = REWARD -> d - 1
                                          [] e[2].role = ENEMY -> d + 2
                                          [] OTHER -> d
    /\ weight(<<SquareA, SquareB>>, DefaultBonus, DefaultPenalty) = 2
    /\ weight(<<SquareB, SquareA>>, DefaultBonus, DefaultPenalty) = 3

\* the edge from the entrance into a REWARD weighs less than its flip
C12_Witness ==
    /\ pc = "graph"
    /\ \E e \in graph.edges :
           /\ e[2].role = REWARD
           /\ e[1].role = ENTRANCE
           /\ graph.weight[e] < graph.weight[<<e[2], e[1]>>]

\* C13: the vertex set of the graph make_graph returns is the set of nodes
\* get_nodes selects, the nodes without an edge included.
C13_VerticesAreTheNodes ==
    pc = "graph" => graph.nodes = nodes

\* the vertices of the graph are nodes, and a node with an edge is a vertex
VerticesAreLinkedNodes ==
    pc = "graph" =>
        graph.nodes = {n \in nodes : \E e \in edges : n \in {e[1], e[2]}}

Corners ==
    {5, 6, 9, 10}

DeadEnds ==
    {7, 11, 13, 14}

Intersections ==
    {0, 1, 2, 4, 8}

\* C15: of the 16 border flag sets the corners are TOP+LEFT (5), TOP+RIGHT
\* (9), BOTTOM+LEFT (6) and BOTTOM+RIGHT (10), the dead ends the sets of 3
\* flags, the intersections the sets of fewer than 2; no set is two of
\* these, and TOP+BOTTOM (3) and LEFT+RIGHT (12) are none of them.
C15_BorderKinds ==
    pc = "graph" =>
        \A q \in Range(maze.squares) :
            LET b == q.border
            IN  /\ corner(b) <=> b \in Corners
                /\ dead_end(b) <=> b \in DeadEnds
                /\ intersection(b) <=> b \in Intersections
                /\ ~(corner(b) /\ dead_end(b))
                /\ ~(corner(b) /\ intersection(b))
                /\ ~(dead_end(b) /\ intersection(b))
                /\ b \in {BitOr(TOP, BOTTOM), BitOr(LEFT, RIGHT)} =>
                       ~corner(b) /\ ~dead_end(b) /\ ~intersection(b)

\* get_nodes looked at a square walled at TOP and BOTTOM only and left it out
C15_Witness ==
    /\ pc = "graph"
    /\ \E q \in Range(maze.squares) \ nodes :
           q.role = NONE /\ q.border = BitOr(TOP, BOTTOM)

\* a square without a role walled on two opposite sides only is no node
CorridorIsNoNode ==
    \A q \in Range(maze.squares) :
        (q.role = NONE /\ q.border \in {BitOr(TOP, BOTTOM), BitOr(LEFT, RIGHT)})
            => q \notin nodes

\* C18 as stated: a square without a role walled on two opposite sides only
\* is never a node, and a square walled on exactly 3 sides is always one.
C18_Stated ==
    pc = "graph" =>
        /\ CorridorIsNoNode
        /\ \A q \in Range(maze.squares) : q.border \in DeadEnds => q \in nodes

\* C18: a square without a role walled on two opposite sides only is never a
\* node, and a square walled on exactly 3 sides is a node unless its role is
\* EXTERIOR or WALL, when it is none.
C18_CorridorsAndDeadEnds ==
    pc = "graph" =>
        /\ CorridorIsNoNode
        /\ \A q \in Range(maze.squares) :
               q.border \in DeadEnds => (q \in nodes <=> q.role \notin {EXTERIOR, WALL})

\* a dead end without a role is the far end of an edge
C18_Witness ==
    /\ pc = "graph"
    /\ \E e \in edges : e[2].role = NONE /\ e[2].border \in DeadEnds

----------------------------------------------------------------------------
(* The solver session: solve and then solve_all on a Maze.                 *)

Corridors ==
    {EMPTY, BitOr(TOP, BOTTOM), BitOr(LEFT, RIGHT)}

SolverFreeCells ==
    (Corridors \X {NONE}) \cup ({EMPTY} \X {REWARD, ENEMY, WALL})

\* an ENTRANCE walled LEFT|TOP|BOTTOM followed by an EXIT walled
\* RIGHT|TOP|BOTTOM, side by side or one above the other, and side by side
\* with a RIGHT wall on the entrance as well
RoomOfTwo ==
    {<<Square(0, 0, 0, BitOr(LEFT, BitOr(TOP, BOTTOM)), ENTRANCE),
       Square(1, 0, 1, BitOr(RIGHT, BitOr(TOP, BOTTOM)), EXIT)>>,
     <<Square(0, 0, 0, BitOr(LEFT, BitOr(TOP, BOTTOM)), ENTRANCE),
       Square(1, 1, 0, BitOr(RIGHT, BitOr(TOP, BOTTOM)), EXIT)>>,
     <<Square(0, 0, 0, 15, ENTRANCE),
       Square(1, 0, 1, BitOr(RIGHT, BitOr(TOP, BOTTOM)), EXIT)>>}

SolverInit ==
    \/ MazeInit(MaxMaze, FALSE, EndBits \X {ENTRANCE}, EndBits \X {EXIT}, SolverFreeCells)
    \/ MazeFrom(RoomOfTwo)

\* solve(maze): one of the paths the search may return
Solve ==
    /\ pc = "constructed"
    /\ solution' \in solve(maze.squares)
    /\ pc' = "solved"
    /\ UNCHANGED <<input, maze, file, loaded, redump, nodes, edges, graph, solutions>>
    /\ UNCHANGED <<sqlVars, repoVars>>

\* solve_all(maze)
SolveAll ==
    /\ pc = "solved"
    /\ solutions' = solve_all(maze.squares)
    /\ pc' = "solved_all"
    /\ UNCHANGED <<input, maze, file, loaded, redump, nodes, edges, graph, solution>>
    /\ UNCHANGED <<sqlVars, repoVars>>

SolverNext ==
    \/ Solve
    \/ SolveAll

SolverSpec ==
    SolverInit /\ [][SolverNext]_vars

----------------------------------------------------------------------------
(* Claims about construction and the codec, checked under Spec.            *)

\* C1: for every square sequence the Maze constructor accepts, dumping the
\* Maze and loading the file again yields a Maze with the same squares: the
\* same number of them, each equal in index, row, column, border and role.
C1_DumpLoadRoundTrip ==
    (pc = "loaded" /\ input.kind = "squares") =>
        /\ loaded.status = "ok"
        /\ Len(loaded.squares) = Len(maze.squares)
        /\ \A i \in 1..Len(maze.squares) : loaded.squares[i] = maze.squares[i]

\* C2: for every byte stream that Maze.load accepts, dumping the loaded Maze
\* writes exactly that stream: the same header bytes and the same payload,
\* nothing added and nothing dropped.
C2_LoadDumpRoundTrip ==
    (pc = "redumped" /\ input.kind = "bytes") => redump = input.bytes

\* the first n bytes of the supplied file, or all of it
FirstBytes(n) ==
    SubSeq(input.bytes, 1, IF Len(input.bytes) < n THEN Len(input.bytes) ELSE n)

BadMagic ==
    FirstBytes(4) # MAGIC_NUMBER

BadVersion ==
    FirstBytes(4) = MAGIC_NUMBER /\ Len(input.bytes) >= 5 /\ input.bytes[5] # FORMAT_VERSION

FormatErrors ==
    /\ BadMagic => loaded.status = "AssertionError: Unknown file type"
    /\ BadVersion => loaded.status = "ValueError: Unsupported file format version"
    /\ (BadMagic \/ BadVersion) => loaded.squares = <<>>

\* C16: loading a stream whose first 4 bytes are not MAZE fails with the
\* error of the bad magic, loading one with the magic and a version byte
\* other than 1 fails with the error of the unsupported version, the magic
\* being looked at first; neither produces a square or a Maze.
C16_BadMagicBadVersion ==
    (pc = "loaded" /\ input.kind = "bytes") => FormatErrors

\* the same for the streams that hold the 13 bytes of a header
FormatErrorsOnFullHeaders ==
    (pc = "loaded" /\ input.kind = "bytes" /\ Len(input.bytes) >= 13) => FormatErrors

\* every stream with a bad magic or version fails to load, whatever the error
NoMazeFromBadHeader ==
    (pc = "loaded" /\ input.kind = "bytes" /\ (BadMagic \/ BadVersion))
        => loaded.status # "ok" /\ loaded.squares = <<>>

\* C17: loading a stream whose payload holds fewer bytes than the width times
\* the height of its header fails: load never returns a Maze built from
\* fewer squares.
C17_TruncatedPayloadFails ==
    (/\ pc = "loaded"
     /\ input.kind = "bytes"
     /\ Len(input.bytes) >= 13
     /\ ~BadMagic /\ ~BadVersion
     /\ Len(input.bytes) - 13
            < UnpackU32(SubSeq(input.bytes, 6, 9)) * UnpackU32(SubSeq(input.bytes, 10, 13)))
        => loaded.status # "ok"

\* the squares of s break the index rule or the row / column rule of a Maze
BreaksGridRules(s) ==
    \/ \E i \in 1..Len(s) : s[i].index # i - 1
    \/ /\ Len(s) > 0
       /\ \E h \in 0..(height(s) - 1), w \in 0..(width(s) - 1) :
              \/ h * width(s) + w + 1 > Len(s)
              \/ s[h * width(s) + w + 1].row # h
              \/ s[h * width(s) + w + 1].column # w

\* C7: every Maze the constructor accepts has squares[i].index = i for all i
\* and squares[h*width+w].row = h, .column = w for all h < height, w < width;
\* a square sequence that breaks either rule is rejected and yields no Maze.
C7_GridRulesEnforced ==
    pc = "constructed" =>
        /\ maze.status = "ok" =>
               maze.squares = input.squares /\ ~BreaksGridRules(maze.squares)
        /\ BreaksGridRules(input.squares) =>
               maze.status # "ok" /\ maze.squares = <<>>

\* a Maze of a full row of three squares was accepted, and a sequence whose
\* second square carries a wrong column was rejected for it
C7_Witness ==
    /\ pc = "constructed"
    /\ Len(input.squares) = 3
    /\ input.squares[2].column # 1
    /\ maze.status = "AssertionError: Wrong square.column"

RolesCount(s, role) ==
    Cardinality({i \in 1..Len(s) : s[i].role = role})

\* C8: construction fails unless exactly one square has role ENTRANCE and
\* exactly one has role EXIT; maze.entrance and maze.exit of an accepted Maze
\* are the only squares with those roles.
C8_OneEntranceOneExit ==
    pc = "constructed" =>
        /\ (RolesCount(input.squares, ENTRANCE) # 1 \/ RolesCount(input.squares, EXIT) # 1)
               => maze.status # "ok"
        /\ maze.status = "ok" =>
               \A i \in 1..Len(maze.squares) :
                   /\ maze.squares[i].role = ENTRANCE <=> maze.squares[i] = entrance(maze.squares)
                   /\ maze.squares[i].role = EXIT <=> maze.squares[i] = exit(maze.squares)

\* a well-formed grid with one entrance and two exits was rejected
C8_Witness ==
    /\ pc = "constructed"
    /\ ~BreaksGridRules(input.squares)
    /\ RolesCount(input.squares, ENTRANCE) = 1
    /\ RolesCount(input.squares, EXIT) = 2
    /\ maze.status = "AssertionError: Must have exactly 1 exit"

----------------------------------------------------------------------------
(* Claims about the solver, checked under SolverSpec.  The reference is    *)
(* the plain enumeration of the paths of the graph make_graph builds.      *)

\* the simple paths of G that extend path to target
RECURSIVE Extend(_, _, _)
Extend(G, path, target) ==
    IF path[Len(path)] = target THEN {path}
    ELSE UNION {Extend(G, Append(path, e[2]), target) :
                   e \in {f \in G.edges : f[1] = path[Len(path)] /\ f[2] \notin Range(path)}}

\* the simple entrance-to-exit paths of the graph G of the maze
EntranceExitPaths(G) ==
    Extend(G, <<entrance(maze.squares)>>, exit(maze.squares))

RECURSIVE PathWeight(_, _)
PathWeight(G, path) ==
    IF Len(path) <= 1 THEN 0
    ELSE G.weight[<<path[1], path[2]>>] + PathWeight(G, Tail(path))

\* the paths of ps no other one of ps undercuts
Cheapest(G, ps) ==
    LET w == [p \in ps |-> PathWeight(G, p)]
    IN  {p \in ps : \A q \in ps : w[p] <= w[q]}

\* C3: when the exit can be reached from the entrance in the graph, solve
\* returns a path from the entrance to the exit along directed edges of the
\* graph, and no entrance-to-exit path weighs less.  (A path that visits a
\* node twice weighs no less than the simple path inside it, as no edge
\* weighs less than 0.)
C3_SolveIsCheapest ==
    pc \in {"solved", "solved_all"} =>
        LET G == make_graph(maze.squares)
            ps == EntranceExitPaths(G)
        IN  ps # {} =>
                /\ solution.status = "ok"
                /\ solution.squares[1] = entrance(maze.squares)
                /\ solution.squares[Len(solution.squares)] = exit(maze.squares)
                /\ \A i \in 1..(Len(solution.squares) - 1) :
                       <<solution.squares[i], solution.squares[i + 1]>> \in G.edges
                /\ \A q \in ps : PathWeight(G, solution.squares) <= PathWeight(G, q)
                /\ \A e \in G.edges : G.weight[e] >= 0

\* solve returned the cheaper of two routes of the same number of hops
C3_Witness ==
    /\ pc = "solved"
    /\ solution.status = "ok"
    /\ LET G == make_graph(maze.squares)
       IN  \E q \in EntranceExitPaths(G) :
               /\ Len(q) = Len(solution.squares)
               /\ PathWeight(G, q) > PathWeight(G, solution.squares)

\* C4: solve_all returns the simple entrance-to-exit paths of least total
\* weight, each once and no other path; the path solve returns is one of
\* them; two cheapest paths make exactly 2 Solutions.
C4_SolveAllIsTheCheapest ==
    pc = "solved_all" =>
        LET G == make_graph(maze.squares)
            best == Cheapest(G, EntranceExitPaths(G))
        IN  /\ solutions.status = "ok"
            /\ Range(solutions.list) = best
            /\ Len(solutions.list) = Cardinality(best)
            /\ best # {} =>
                   solution.status = "ok" /\ solution.squares \in Range(solutions.list)
            /\ Cardinality(best) = 2 => Len(solutions.list) = 2

\* two routes weigh the same, and solve_all returned the two of them
C4_Witness ==
    /\ pc = "solved_all"
    /\ Len(solutions.list) = 2
    /\ solutions.list[1] # solutions.list[2]
    /\ solution.squares \in Range(solutions.list)

\* the shape of a Solution
SolutionShape(sqs) ==
    /\ sqs[1].role = ENTRANCE
    /\ sqs[Len(sqs)].role = EXIT
    /\ \A i \in 1..(Len(sqs) - 1) :
           sqs[i].row = sqs[i + 1].row \/ sqs[i].column = sqs[i + 1].column

\* C5: every Solution solve or solve_all returns starts at the square of role
\* ENTRANCE, ends at the square of role EXIT and moves along a row or a
\* column at every step; no path the search finds is turned down by the
\* checks of Solution.
C5_SolutionShape ==
    pc = "solved_all" =>
        /\ solution.status \in {"ok", "None"}
        /\ solution.status = "ok" => SolutionShape(solution.squares)
        /\ solutions.status = "ok"
        /\ \A k \in 1..Len(solutions.list) : SolutionShape(solutions.list[k])

\* a Solution of three squares that turns a corner was returned
C5_Witness ==
    /\ pc = "solved_all"
    /\ solution.status = "ok"
    /\ Len(solution.squares) = 3
    /\ solution.squares[1].row # solution.squares[3].row
    /\ solution.squares[1].column # solution.squares[3].column
    /\ solution.squares \in Range(solutions.list)

\* C6: without a directed path from the entrance to the exit solve returns
\* None and solve_all the empty list, and neither raises; with one, solve
\* returns a Solution and solve_all at least one.
C6_Unreachable ==
    pc = "solved_all" =>
        IF EntranceExitPaths(make_graph(maze.squares)) = {}
        THEN solution = NoSolution /\ solutions = [status |-> "ok", list |-> <<>>]
        ELSE /\ solution.status = "ok"
             /\ solutions.status = "ok"
             /\ Len(solutions.list) > 0

\* the entrance has no edge at all, the exit has one, and solve returned None
C6_Witness ==
    /\ pc = "solved_all"
    /\ entrance(maze.squares) \notin make_graph(maze.squares).nodes
    /\ exit(maze.squares) \in make_graph(maze.squares).nodes
    /\ solution = NoSolution
    /\ solutions.list = <<>>

----------------------------------------------------------------------------
(* The hook session: callers register callbacks with on_commit, add        *)
(* objects, and begin, commit and roll back transactions on two sessions.  *)

HookInit ==
    /\ pc = "idle"
    /\ input = [kind |-> "none", squares |-> <<>>, bytes |-> <<>>]
    /\ maze = Unset
    /\ file = <<>>
    /\ loaded = Unset
    /\ redump = <<>>
    /\ nodes = {}
    /\ edges = {}
    /\ graph = NoGraph
    /\ solution = Unset
    /\ solutions = NoSolutions
    /\ SqlIdle
    /\ RepoIdle

\* on_commit(s, callback) with a callback not registered before
Register(s) ==
    /\ Len(owner) < MaxHooks
    /\ info' = [info EXCEPT ![s] = on_commit(@, Len(owner) + 1)]
    /\ owner' = Append(owner, s)
    /\ waiting' = [waiting EXCEPT ![s] = Append(@, Len(owner) + 1)]
    /\ UNCHANGED <<txn, pending, db, calls, discarded, lost, frame, spawned>>
    /\ UNCHANGED <<mazeVars, repoVars>>

\* s.begin(): the root transaction, or a nested one inside an open one
Begin(s) ==
    /\ Len(txn[s]) < MaxDepth
    /\ txn' = [txn EXCEPT ![s] = Append(@, IF @ = <<>> THEN "root" ELSE "nested")]
    /\ pending' = [pending EXCEPT ![s] = Append(@, {})]
    /\ UNCHANGED <<info, db, calls, owner, waiting, discarded, lost, frame, spawned>>
    /\ UNCHANGED <<mazeVars, repoVars>>

\* s.add(o) of a new object, in the innermost transaction (the root
\* transaction begins with it when none is open)
Add(s, o) ==
    /\ o \notin db
    /\ \A t \in Sessions : \A i \in 1..Len(pending[t]) : o \notin pending[t][i]
    /\ IF txn[s] = <<>>
       THEN /\ txn' = [txn EXCEPT ![s] = <<"root">>]
            /\ pending' = [pending EXCEPT ![s] = <<{o}>>]
       ELSE /\ txn' = txn
            /\ pending' = [pending EXCEPT ![s][Len(txn[s])] = @ \cup {o}]
    /\ UNCHANGED <<info, db, calls, owner, waiting, discarded, lost, frame, spawned>>
    /\ UNCHANGED <<mazeVars, repoVars>>

\* the innermost, nested transaction of s commits (its block ends)
EndNested(s) ==
    /\ Len(txn[s]) >= 2
    /\ LET done == CommitOne(info[s], s, TRUE)
           top == Len(txn[s])
       IN  /\ info' = [info EXCEPT ![s] = done.info]
           /\ calls' = calls \o done.calls
           /\ txn' = [txn EXCEPT ![s] = SubSeq(@, 1, top - 1)]
           /\ pending' = [pending EXCEPT ![s] =
                              [i \in 1..(top - 1) |->
                                  IF i = top - 1 THEN @[i] \cup @[top] ELSE @[i]]]
    /\ UNCHANGED <<db, owner, waiting, discarded, lost, frame, spawned>>
    /\ UNCHANGED <<mazeVars, repoVars>>

\* s.commit(), or the block of the root transaction ends: every open
\* transaction of s commits, the root last
Commit(s) ==
    /\ LET done == CommitChain(info[s], s, Len(txn[s]))
       IN  /\ info' = [info EXCEPT ![s] = done.info]
           /\ calls' = calls \o done.calls
    /\ txn' = [txn EXCEPT ![s] = <<>>]
    /\ db' = db \cup UNION {pending[s][i] : i \in 1..Len(pending[s])}
    /\ pending' = [pending EXCEPT ![s] = <<>>]
    /\ waiting' = [waiting EXCEPT ![s] = <<>>]
    /\ UNCHANGED <<owner, discarded, lost, frame, spawned>>
    /\ UNCHANGED <<mazeVars, repoVars>>

\* the innermost, nested transaction of s is rolled back
RollbackNested(s) ==
    /\ Len(txn[s]) >= 2
    /\ info' = [info EXCEPT ![s] = remove_remaining_hooks(@, TRUE)]
    /\ txn' = [txn EXCEPT ![s] = SubSeq(@, 1, Len(@) - 1)]
    /\ pending' = [pending EXCEPT ![s] = SubSeq(@, 1, Len(@) - 1)]
    /\ UNCHANGED <<db, calls, owner, waiting, discarded, lost, frame, spawned>>
    /\ UNCHANGED <<mazeVars, repoVars>>

\* s.rollback(), or an exception leaves the block of the root transaction
Rollback(s) ==
    /\ txn[s] # <<>>
    /\ info' = [info EXCEPT ![s] = RollbackChain(@, Len(txn[s]))]
    /\ txn' = [txn EXCEPT ![s] = <<>>]
    /\ pending' = [pending EXCEPT ![s] = <<>>]
    /\ waiting' = [waiting EXCEPT ![s] = <<>>]
    /\ discarded' = discarded \cup Range(waiting[s])
    /\ lost' = lost \cup UNION {pending[s][i] : i \in 1..Len(pending[s])}
    /\ UNCHANGED <<db, calls, owner, frame, spawned>>
    /\ UNCHANGED <<mazeVars, repoVars>>

HookNext ==
    \/ \E s \in Sessions : Register(s)
    \/ \E s \in Sessions : Begin(s)
    \/ \E s \in Adders : \E o \in Objects : Add(s, o)
    \/ \E s \in Sessions : EndNested(s)
    \/ \E s \in Sessions : Commit(s)
    \/ \E s \in Sessions : RollbackNested(s)
    \/ \E s \in Sessions : Rollback(s)

HookSpec ==
    HookInit /\ [][HookNext]_vars

\* the calls made so far: no callback was called twice, and each with the
\* session it was registered with
CalledOnceWithItsSession ==
    /\ \A i \in 1..Len(calls) : \A j \in 1..Len(calls) :
           i # j => calls[i][1] # calls[j][1]
    /\ \A i \in 1..Len(calls) :
           calls[i][1] \in 1..Len(owner) /\ calls[i][2] = owner[calls[i][1]]

\* a step in which the root transaction of s commits calls the callbacks
\* registered with s since its last root transaction ended, in the order of
\* their registration; any other step calls nothing
CallsAtRootCommitOnly ==
    /\ \A s \in Sessions :
           Commit(s) =>
               calls' = calls \o [i \in 1..Len(waiting[s]) |-> <<waiting[s][i], s>>]
    /\ (\A s \in Sessions : ~Commit(s)) => calls' = calls

\* C20: every callback registered with on_commit(session, cb) is called
\* exactly once, with the session, in the step in which the root transaction
\* of the session next commits; no step that registers a callback, adds an
\* object, begins a transaction or ends a nested one calls anything, and no
\* later commit calls it again.
C20_CalledOnceAtRootCommit ==
    /\ []CalledOnceWithItsSession
    /\ [][CallsAtRootCommitOnly]_vars

\* the two callbacks registered with s1 were called, in order, at a commit
\* that persisted an object; a third, registered later, waits
C20_Witness ==
    /\ calls = <<<<1, "s1">>, <<2, "s1">>>>
    /\ owner = <<"s1", "s1", "s1">>
    /\ waiting["s1"] = <<3>>
    /\ db # {}
    /\ txn["s1"] = <<>>

\* no callback that was discarded by a rollback of the root transaction has
\* been called, and none is in a pending list
DiscardedNeverCalled ==
    /\ \A i \in 1..Len(calls) : calls[i][1] \notin discarded
    /\ \A s \in Sessions : Range(info[s].hooks) \cap discarded = {}

\* a step in which the root transaction of s is rolled back calls nothing,
\* removes the pending list of s, persists none of the objects added in the
\* open transactions of s and leaves s without a transaction
RollbackDiscards ==
    \A s \in Sessions :
        Rollback(s) =>
            /\ calls' = calls
            /\ info'[s] = NoHooks
            /\ db' \cap UNION {pending[s][i] : i \in 1..Len(pending[s])} = {}
            /\ txn'[s] = <<>>

\* C21: when the outermost transaction of a session ends in a rollback, also
\* after a nested transaction inside it committed, no registered callback is
\* called, the pending list is discarded and no later commit calls the
\* callbacks it held, the objects added in the outer and in the nested
\* transaction are not persisted, and the session is in no transaction.
C21_RollbackDiscards ==
    /\ []DiscardedNeverCalled
    /\ [][RollbackDiscards]_vars

\* a rollback discarded the two callbacks registered with s1 and the
\* object added to it; nothing was called and nothing persisted
C21_Witness ==
    /\ discarded = {1, 2}
    /\ lost = {"user1"}
    /\ calls = <<>>
    /\ db = {}
    /\ txn["s1"] = <<>>
    /\ info["s1"] = NoHooks

----------------------------------------------------------------------------
(* The repository session: one session, a Repository per model, and the    *)
(* calls of tests/sql/test_repository.py and test_dbkit.py on them.  A     *)
(* statement that the session executes flushes the session first, as the   *)
(* query after delete in test_delete shows.                                *)

\* the primary keys that the entities of a model get
Keys(model) ==
    IF model = "User" THEN {1, 2} ELSE {1}

\* the primary keys that callers ask for: those of the entities and one
\* that no entity has
Pks(model) ==
    Keys(model) \cup {3}

Call(op, model, pk, include_deleted, status, found, rows) ==
    [op |-> op, model |-> model, pk |-> pk, include_deleted |-> include_deleted,
     status |-> status, found |-> found, rows |-> rows]

RepoInit ==
    /\ pc = "idle"
    /\ input = [kind |-> "none", squares |-> <<>>, bytes |-> <<>>]
    /\ maze = Unset
    /\ file = <<>>
    /\ loaded = Unset
    /\ redump = <<>>
    /\ nodes = {}
    /\ edges = {}
    /\ graph = NoGraph
    /\ solution = Unset
    /\ solutions = NoSolutions
    /\ SqlIdle
    /\ RepoIdle

\* Repository(model).create(refresh)
Create(model, refresh) ==
    /\ Len(records[model]) + 1 \in Keys(model)
    /\ LET pk == Len(records[model]) + 1
           added == [records EXCEPT ![model] = Append(@, NewRow(model))]
       IN  /\ IF refresh
              THEN /\ records' = flush(added, session_new \cup {<<model, pk>>},
                                       session_dirty, auth)
                   /\ session_new' = {}
                   /\ session_dirty' = {}
              ELSE /\ records' = added
                   /\ session_new' = session_new \cup {<<model, pk>>}
                   /\ session_dirty' = session_dirty
           /\ ret' = Call(IF refresh THEN "create and refresh" ELSE "create",
                          model, pk, FALSE, "ok", <<pk>>, {})
    /\ UNCHANGED <<auth, clock>>
    /\ UNCHANGED <<mazeVars, sqlVars>>

\* setattr(session, "auth", user), user being None or a user; or
\* delattr(session, "auth"), which leaves "absent"
SetAuth(user) ==
    /\ auth' = user
    /\ ret' = Call("setattr", "none", 0, FALSE, "ok", NoEntity, {})
    /\ UNCHANGED <<records, session_new, session_dirty, clock>>
    /\ UNCHANGED <<mazeVars, sqlVars>>

\* entity.is_admin = value on the entity pk of the model User: the entity
\* is modified (is_admin is not one of the columns kept in records)
Modify(pk) ==
    /\ pk \in 1..Len(records["User"])
    /\ records' = records
    /\ session_dirty' = IF <<"User", pk>> \in session_new
                        THEN session_dirty
                        ELSE session_dirty \cup {<<"User", pk>>}
    /\ ret' = Call("setattr is_admin", "User", pk, FALSE, "ok", <<pk>>, {})
    /\ UNCHANGED <<session_new, auth, clock>>
    /\ UNCHANGED <<mazeVars, sqlVars>>

\* session.execute(Repository(model).query(include_deleted)).scalars()
Query(model, include_deleted) ==
    /\ LET flushed == flush(records, session_new, session_dirty, auth)
       IN  /\ records' = flushed
           /\ ret' = Call("query", model, 0, include_deleted, "ok", NoEntity,
                          query(flushed, model, include_deleted))
    /\ session_new' = {}
    /\ session_dirty' = {}
    /\ UNCHANGED <<auth, clock>>
    /\ UNCHANGED <<mazeVars, sqlVars>>

\* Repository(model).find(pk, include_deleted)
Find(model, pk, include_deleted) ==
    /\ LET flushed == flush(records, session_new, session_dirty, auth)
       IN  /\ records' = flushed
           /\ ret' = Call("find", model, pk, include_deleted, "ok",
                          find(flushed, model, pk, include_deleted), {})
    /\ session_new' = {}
    /\ session_dirty' = {}
    /\ UNCHANGED <<auth, clock>>
    /\ UNCHANGED <<mazeVars, sqlVars>>

\* Repository(model).find_or_raise(pk, include_deleted)
FindOrRaise(model, pk, include_deleted) ==
    /\ LET flushed == flush(records, session_new, session_dirty, auth)
           done == find_or_raise(flushed, model, pk, include_deleted)
       IN  /\ records' = flushed
           /\ ret' = Call("find_or_raise", model, pk, include_deleted,
                          done.status, done.found, {})
    /\ session_new' = {}
    /\ session_dirty' = {}
    /\ UNCHANGED <<auth, clock>>
    /\ UNCHANGED <<mazeVars, sqlVars>>

\* Repository(model).all(include_deleted)
All(model, include_deleted) ==
    /\ LET flushed == flush(records, session_new, session_dirty, auth)
       IN  /\ records' = flushed
           /\ ret' = Call("all", model, 0, include_deleted, "ok", NoEntity,
                          all(flushed, model, include_deleted))
    /\ session_new' = {}
    /\ session_dirty' = {}
    /\ UNCHANGED <<auth, clock>>
    /\ UNCHANGED <<mazeVars, sqlVars>>

\* Repository(model).list(limit, offset, include_deleted)
List(model, limit, offset, include_deleted) ==
    /\ LET flushed == flush(records, session_new, session_dirty, auth)
       IN  /\ records' = flushed
           /\ ret' = [op |-> "list", model |-> model, pk |-> 0,
                       include_deleted |-> include_deleted, status |-> "ok",
                       found |-> list(flushed, model, limit, offset, include_deleted),
                       rows |-> {}, limit |-> limit, offset |-> offset]
    /\ session_new' = {}
    /\ session_dirty' = {}
    /\ UNCHANGED <<auth, clock>>
    /\ UNCHANGED <<mazeVars, sqlVars>>

\* Repository(model).delete(pk)
Delete(model, pk) ==
    /\ clock <= MaxClock
    /\ LET done == delete(records, session_new, session_dirty, auth, model, pk, clock)
       IN  /\ records' = done.records
           /\ session_new' = done.new
           /\ session_dirty' = done.dirty
           /\ clock' = IF done.dirty = session_dirty /\ done.records = records
                          /\ done.new = session_new /\ done.status = "ok"
                       THEN clock ELSE clock + 1
           /\ ret' = Call("delete", model, pk, FALSE, done.status, NoEntity, {})
    /\ UNCHANGED auth
    /\ UNCHANGED <<mazeVars, sqlVars>>

\* session.commit(): the session is flushed and its transaction committed
SessionCommit ==
    /\ records' = flush(records, session_new, session_dirty, auth)
    /\ session_new' = {}
    /\ session_dirty' = {}
    /\ ret' = Call("commit", "none", 0, FALSE, "ok", NoEntity, {})
    /\ UNCHANGED <<auth, clock>>
    /\ UNCHANGED <<mazeVars, sqlVars>>

\* every call leaves its name in ret.op
RepoNext ==
    \/ \E model \in Models : \E refresh \in BOOLEAN : Create(model, refresh)
    \/ \E user \in {"absent", None} \cup Users : SetAuth(user)
    \/ \E pk \in Keys("User") : Modify(pk)
    \/ \E model \in Models : \E b \in BOOLEAN : Query(model, b)
    \/ \E model \in Models : \E pk \in Pks(model) : \E b \in BOOLEAN :
           Find(model, pk, b)
    \/ \E model \in Models : \E pk \in Pks(model) : \E b \in BOOLEAN :
           FindOrRaise(model, pk, b)
    \/ \E model \in Models : \E b \in BOOLEAN : All(model, b)
    \/ \E model \in Models : \E limit \in {1, 20} : \E offset \in {0, 1} :
           \E b \in BOOLEAN : List(model, limit, offset, b)
    \/ \E model \in Models : \E pk \in Pks(model) : Delete(model, pk)
    \/ SessionCommit

RepoSpec ==
    RepoInit /\ [][RepoNext]_vars

\* the entity pk of the model is soft-deleted
SoftDeleted(model, pk) ==
    /\ model \in AbstractBaseModels
    /\ records[model][pk].deleted_at # not_deleted_value(model)

\* the entities of the model that a call with include_deleted may return
Visible(model, include_deleted) ==
    {pk \in 1..Len(records[model]) : include_deleted \/ ~SoftDeleted(model, pk)}

\* what the last call returned: query and all every visible entity, find
\* the entity of the primary key when it is visible and None otherwise, list
\* visible entities only, as many as limit and offset leave
ReturnsTheVisible ==
    LET visible == Visible(ret.model, ret.include_deleted)
    IN  /\ ret.op \in {"query", "all"} => ret.rows = visible
        /\ ret.op = "find" =>
               ret.found = IF ret.pk \in visible THEN <<ret.pk>> ELSE NoEntity
        /\ ret.op = "list" =>
               /\ Range(ret.found) \subseteq visible
               /\ \A i \in 1..Len(ret.found) : \A j \in 1..Len(ret.found) :
                      i # j => ret.found[i] # ret.found[j]
               /\ LET left == Cardinality(visible) - ret.offset
                  IN  Len(ret.found) = IF left < 0 THEN 0
                                       ELSE IF left < ret.limit THEN left ELSE ret.limit

\* a step that is delete(pk) on an entity of a model with soft deletion
\* leaves the entity in place, soft-deleted; no step removes an entity
DeleteKeepsTheRow ==
    /\ (/\ ret'.op = "delete"
        /\ ret'.model \in AbstractBaseModels
        /\ ret'.pk \in 1..Len(records[ret'.model]))
           => /\ ret'.pk \in 1..Len(records'[ret'.model])
              /\ records'[ret'.model][ret'.pk].deleted_at
                     # not_deleted_value(ret'.model)
    /\ \A model \in Models : Len(records'[model]) >= Len(records[model])

\* C22: query, find, all and list return only entities that are not
\* soft-deleted, and with include_deleted=True the soft-deleted ones as
\* well; after delete(pk) the entity is hidden from the default calls and
\* still returned with include_deleted=True: delete sets deleted_at and
\* removes nothing.
C22_SoftDeletedAreHidden ==
    /\ []ReturnsTheVisible
    /\ [][DeleteKeepsTheRow]_vars

\* all() leaves out the first of two users, which was deleted
C22_Witness ==
    /\ ret.op = "all"
    /\ ret.model = "User"
    /\ ~ret.include_deleted
    /\ ret.rows = {2}
    /\ SoftDeleted("User", 1)

\* the last call being find_or_raise, it returned what find returns on the
\* same arguments unless that is None, and raised ModelNotFoundError exactly
\* when find returns None: when no entity has the primary key, or the entity
\* is soft-deleted and include_deleted is False
FindOrRaiseLikeFind ==
    ret.op = "find_or_raise" =>
        LET found == find(records, ret.model, ret.pk, ret.include_deleted)
            missing == \/ ret.pk \notin 1..Len(records[ret.model])
                       \/ SoftDeleted(ret.model, ret.pk) /\ ~ret.include_deleted
        IN  /\ found # NoEntity => ret.status = "ok" /\ ret.found = found
            /\ ret.status = "ModelNotFoundError" <=> found = NoEntity
            /\ ret.status = "ModelNotFoundError" <=> missing
            /\ ret.status \in {"ok", "ModelNotFoundError"}

\* a find_or_raise step changes no entity
FindOrRaiseChangesNothing ==
    ret'.op = "find_or_raise" => records' = records

\* a find_or_raise step changes nothing of an entity that was flushed, and
\* nothing but updated_by of an entity that was new or modified; it changes
\* nothing at all when the session has no "auth"
FindOrRaiseOnlyFlushes ==
    ret'.op = "find_or_raise" =>
        /\ \A m \in Models :
               /\ Len(records'[m]) = Len(records[m])
               /\ \A k \in 1..Len(records[m]) :
                      /\ records'[m][k].deleted_at = records[m][k].deleted_at
                      /\ <<m, k>> \notin session_new \cup session_dirty
                             => records'[m][k] = records[m][k]
        /\ auth = "absent" => records' = records

\* C23 as stated: find_or_raise returns what find returns or raises
\* ModelNotFoundError when find returns None, and never changes any record.
C23_Stated ==
    /\ []FindOrRaiseLikeFind
    /\ [][FindOrRaiseChangesNothing]_vars

\* C23: find_or_raise(pk, include_deleted) returns the record find returns
\* whenever that is not None and raises ModelNotFoundError exactly when find
\* returns None (no record has the primary key, or the record is soft-deleted
\* and include_deleted is False); it changes no record beyond the flush of
\* the new and modified entities of the session that its query starts with,
\* which sets their updated_by when the session has auth.
C23_FindOrRaise ==
    /\ []FindOrRaiseLikeFind
    /\ [][FindOrRaiseOnlyFlushes]_vars

\* find_or_raise raised for the soft-deleted first user, in a session whose
\* second user was stamped by the flush
C23_Witness ==
    /\ ret.op = "find_or_raise"
    /\ ret.model = "User"
    /\ ret.pk = 1
    /\ ~ret.include_deleted
    /\ ret.status = "ModelNotFoundError"
    /\ Len(records["User"]) = 2
    /\ SoftDeleted("User", 1)
    /\ records["User"][2].updated_by = user_uuid("AdminUser")

\* the entities that are stored before and after a step
Stored ==
    UNION {{<<model, pk>> : pk \in 1..Len(records[model])} : model \in Models}

\* the new and the modified BaseModel entities of the session
Unflushed ==
    {e \in session_new \cup session_dirty : e[1] \in BaseModels}

\* a commit in a session with an auth user sets updated_by of every new or
\* modified BaseModel entity to the uuid of the user
CommitStamps ==
    (ret'.op = "commit" /\ auth \in Users) =>
        \A e \in Unflushed : records'[e[1]][e[2]].updated_by = user_uuid(auth)

\* no step but a commit changes updated_by of an entity
OnlyCommitStamps ==
    ret'.op # "commit" =>
        \A e \in Stored : records'[e[1]][e[2]].updated_by = records[e[1]][e[2]].updated_by

\* in a session with an auth user, a new or modified BaseModel entity that a
\* step flushes has the uuid of the user as updated_by after the step
FlushStamps ==
    auth \in Users =>
        \A e \in Unflushed :
            e \notin session_new' \cup session_dirty'
                => records'[e[1]][e[2]].updated_by = user_uuid(auth)

\* a step changes updated_by only of an entity that was new or modified, and
\* modifying an attribute of an entity changes the updated_by of none
OnlyUnflushedStamped ==
    /\ \A e \in Stored \ Unflushed :
           records'[e[1]][e[2]].updated_by = records[e[1]][e[2]].updated_by
    /\ ret'.op = "setattr is_admin" =>
           \A e \in Stored :
               records'[e[1]][e[2]].updated_by = records[e[1]][e[2]].updated_by

\* in a session without "auth" no step changes updated_by
NoAuthNoStamp ==
    auth = "absent" =>
        \A e \in Stored : records'[e[1]][e[2]].updated_by = records[e[1]][e[2]].updated_by

StampedAtCommitOnly ==
    CommitStamps /\ OnlyCommitStamps /\ NoAuthNoStamp

StampedAtFlush ==
    CommitStamps /\ FlushStamps /\ OnlyUnflushedStamped /\ NoAuthNoStamp

\* C24 as stated: updated_by of the new and modified BaseModel entities is
\* set to the uuid of the auth user at the flush of the commit and keeps its
\* previous value before the commit; without auth a flush leaves it unchanged.
C24_Stated ==
    [][StampedAtCommitOnly]_vars

\* C24: when the session carries an auth user, updated_by of every new or
\* modified BaseModel entity is set to the uuid of that user at the next
\* flush of the session, which is the flush of the commit unless a query of
\* the session or create(refresh=True) flushes earlier, and not when the
\* attribute is modified; until that flush updated_by keeps its previous
\* value; when the session has no auth attribute, a flush leaves updated_by
\* unchanged.
C24_UpdatedByAtFlush ==
    [][StampedAtFlush]_vars

\* the commit of a session with an auth user left a flushed user with the
\* uuid of that user
C24_Witness ==
    /\ ret.op = "commit"
    /\ auth = "AdminUser"
    /\ Len(records["User"]) >= 1
    /\ records["User"][1].updated_by = user_uuid("AdminUser")
    /\ <<"User", 1>> \notin session_new \cup session_dirty

----------------------------------------------------------------------------
(* More claims about construction, checked under Spec.                     *)

\* the squares s are the row-major squares of a width x height grid
ExactGrid(s) ==
    /\ Len(s) = width(s) * height(s)
    /\ \A i \in 1..Len(s) :
           /\ s[i].row = (i - 1) \div width(s)
           /\ s[i].column = (i - 1) % width(s)

\* C25: every Maze the constructor accepts holds exactly width x height
\* squares, and its square of index i has row i div width and column
\* i mod width: the grid position a decoder derives from the flat index.
C25_ExactlyWidthTimesHeight ==
    /\ maze.status = "ok" => ExactGrid(maze.squares)
    /\ loaded.status = "ok" => ExactGrid(loaded.squares)

\* the index check fails on s: some square does not carry its position
IndexFails(s) ==
    \E i \in 1..Len(s) : s[i].index # i - 1

\* the row / column check fails on s: s is empty, or some cell of its
\* width x height grid is missing or carries another row or column
GridFails(s) ==
    \/ Len(s) = 0
    \/ \E h \in 0..(height(s) - 1), w \in 0..(width(s) - 1) :
           \/ h * width(s) + w + 1 > Len(s)
           \/ s[h * width(s) + w + 1].row # h
           \/ s[h * width(s) + w + 1].column # w

EntranceFails(s) ==
    RolesCount(s, ENTRANCE) # 1

ExitFails(s) ==
    RolesCount(s, EXIT) # 1

\* the errors the row / column check fails with
GridErrors ==
    {"AssertionError: Wrong square.row", "AssertionError: Wrong square.column",
     "IndexError: tuple index out of range",
     "ValueError: max() arg is an empty sequence"}

\* C26: construction runs the index, the row / column, the entrance and the
\* exit check in this order and stops at the first that fails: the error is
\* the one of the earliest failing check, also when later checks would fail
\* too, and no Maze results once a check has failed.
C26_FirstFailingCheck ==
    pc = "constructed" =>
        LET s == input.squares
        IN  /\ IndexFails(s) => maze.status = "AssertionError: Wrong square.index"
            /\ (~IndexFails(s) /\ GridFails(s)) => maze.status \in GridErrors
            /\ (~IndexFails(s) /\ ~GridFails(s) /\ EntranceFails(s))
                   => maze.status = "AssertionError: Must have exactly 1 entrance"
            /\ (~IndexFails(s) /\ ~GridFails(s) /\ ~EntranceFails(s) /\ ExitFails(s))
                   => maze.status = "AssertionError: Must have exactly 1 exit"
            /\ (IndexFails(s) \/ GridFails(s) \/ EntranceFails(s) \/ ExitFails(s))
                   => maze.status # "ok" /\ maze.squares = <<>>

\* a sequence of three squares with a wrong index, no entrance and no exit
\* was rejected for its index
C26_Witness ==
    /\ pc = "constructed"
    /\ Len(input.squares) = 3
    /\ IndexFails(input.squares)
    /\ ~GridFails(input.squares)
    /\ EntranceFails(input.squares)
    /\ ExitFails(input.squares)
    /\ maze.status = "AssertionError: Wrong square.index"

----------------------------------------------------------------------------
(* More claims about the graph, checked under GraphSpec.                   *)

\* C27: with the default bonus 1 and penalty 2, every directed edge of the
\* graph of a valid maze joins two distinct squares of one row or of one
\* column, its distance is an integer >= 1, the difference of their columns
\* (resp. rows), and its weight is >= 0, and 0 only for an edge of distance 1
\* into a REWARD.
C27_AxisAlignedNonNegative ==
    pc = "graph" =>
        \A e \in graph.edges :
            LET dr == Abs(e[1].row - e[2].row)
                dc == Abs(e[1].column - e[2].column)
                d == distance(e)
            IN  /\ e[1] # e[2]
                /\ \/ dr = 0 /\ dc >= 1 /\ d = dc
                   \/ dc = 0 /\ dr >= 1 /\ d = dr
                /\ d * d = dr * dr + dc * dc
                /\ d >= 1
                /\ graph.weight[e] = weight(e, DefaultBonus, DefaultPenalty)
                /\ graph.weight[e] >= 0
                /\ graph.weight[e] = 0 => d = 1 /\ e[2].role = REWARD

\* the graph has an edge of weight 0 from the entrance into a REWARD, whose
\* flip weighs 1
C27_Witness ==
    /\ pc = "graph"
    /\ \E e \in graph.edges :
           /\ graph.weight[e] = 0
           /\ e[1].role = ENTRANCE
           /\ e[2].role = REWARD
           /\ graph.weight[<<e[2], e[1]>>] = 1

----------------------------------------------------------------------------
(* The solution session: a Solution is built from a candidate sequence of  *)
(* squares; and solve and solve_all run with a search that returns the     *)
(* candidate as its path, as a search on a defective graph would.          *)

\* the squares of the candidates: of a 2 x 2 grid, with the roles of the
\* two ends of a solution or without a role
PathSquares(i) ==
    {Square(i, r, c, EMPTY, role) :
        r \in 0..1, c \in 0..1, role \in {NONE, ENTRANCE, EXIT}}

\* the candidates: up to MaxPath squares, the square at position i of index i
Candidates ==
    UNION {{p \in [1..n -> UNION {PathSquares(i) : i \in 0..(n - 1)}] :
               \A i \in 1..n : p[i].index = i - 1} : n \in 1..MaxPath}

SolutionInit ==
    /\ pc = "start"
    /\ \E p \in Candidates : input = [kind |-> "path", squares |-> p, bytes |-> <<>>]
    /\ maze = Unset
    /\ file = <<>>
    /\ loaded = Unset
    /\ redump = <<>>
    /\ nodes = {}
    /\ edges = {}
    /\ graph = NoGraph
    /\ solution = Unset
    /\ solutions = NoSolutions
    /\ SqlIdle
    /\ RepoIdle

\* Solution(squares=candidate)
NewSolution ==
    /\ pc = "start"
    /\ solution' = SolutionNew(input.squares)
    /\ pc' = "solution"
    /\ UNCHANGED <<input, maze, file, loaded, redump, nodes, edges, graph, solutions>>
    /\ UNCHANGED <<sqlVars, repoVars>>

\* solve, its search returning the candidate
SolveFound ==
    /\ pc = "solution"
    /\ solution' \in solve_try([status |-> "ok", paths |-> <<input.squares>>])
    /\ pc' = "solved"
    /\ UNCHANGED <<input, maze, file, loaded, redump, nodes, edges, graph, solutions>>
    /\ UNCHANGED <<sqlVars, repoVars>>

\* solve_all, its search returning the candidate as the only path
SolveAllFound ==
    /\ pc = "solved"
    /\ solutions' = solve_all_try([status |-> "ok", paths |-> <<input.squares>>])
    /\ pc' = "solved_all"
    /\ UNCHANGED <<input, maze, file, loaded, redump, nodes, edges, graph, solution>>
    /\ UNCHANGED <<sqlVars, repoVars>>

SolutionNext ==
    \/ NewSolution
    \/ SolveFound
    \/ SolveAllFound

SolutionSpec ==
    SolutionInit /\ [][SolutionNext]_vars

\* the squares s do not start at an ENTRANCE, do not end at an EXIT, or hold
\* two consecutive squares that differ in row and in column
BadSolution(s) ==
    \/ s[1].role # ENTRANCE
    \/ s[Len(s)].role # EXIT
    \/ \E i \in 1..(Len(s) - 1) :
           s[i].row # s[i + 1].row /\ s[i].column # s[i + 1].column

SolutionErrors ==
    {"AssertionError", "AssertionError: Squares must lie on the same row or column"}

\* C28: constructing a Solution fails when the first square is no ENTRANCE,
\* the last is no EXIT or two consecutive squares differ in row and column;
\* inside solve and solve_all the failure reaches the caller: solve does not
\* return None and solve_all does not return the empty list.
C28_InvalidSolutionPropagates ==
    BadSolution(input.squares) =>
        /\ pc = "solution" =>
               solution.status \in SolutionErrors /\ solution.squares = <<>>
        /\ pc = "solved" => solution.status \in SolutionErrors
        /\ pc = "solved_all" => solutions.status \in SolutionErrors

\* solve_all raised on a candidate from an ENTRANCE to an EXIT with a
\* diagonal step
C28_Witness ==
    /\ pc = "solved_all"
    /\ Len(input.squares) = 3
    /\ input.squares[1].role = ENTRANCE
    /\ input.squares[3].role = EXIT
    /\ BadSolution(input.squares)
    /\ solutions.status = "AssertionError"
    /\ solution.status = "AssertionError: Squares must lie on the same row or column"

----------------------------------------------------------------------------
(* The commit of a root transaction, step by step: process_hooks pops the  *)
(* callbacks one at a time and calls each, and a callback that runs may    *)
(* register further callbacks with the session.  No transaction is nested  *)
(* and none is rolled back in this session.                                *)

\* session.commit() reaches "after_commit": process_hooks starts, the
\* session not being in a nested transaction
StartCommit(s) ==
    /\ frame = NoFrame
    /\ Len(txn[s]) <= 1
    /\ frame' = [session |-> s, fn |-> 0]
    /\ UNCHANGED <<txn, info, pending, db, calls, owner, waiting, discarded, lost, spawned>>
    /\ UNCHANGED <<mazeVars, repoVars>>

\* fn = hooks.pop(0)
Pop ==
    /\ frame # NoFrame
    /\ frame.fn = 0
    /\ info[frame.session].hooks # <<>>
    /\ frame' = [frame EXCEPT !.fn = Head(info[frame.session].hooks)]
    /\ info' = [info EXCEPT ![frame.session].hooks = Tail(@)]
    /\ UNCHANGED <<txn, pending, db, calls, owner, waiting, discarded, lost, spawned>>
    /\ UNCHANGED <<mazeVars, repoVars>>

\* fn(current_session): the callback runs and returns; it registers a new
\* callback with the session (more = TRUE) or none
CallHook(more) ==
    /\ frame # NoFrame
    /\ frame.fn # 0
    /\ calls' = Append(calls, <<frame.fn, frame.session>>)
    /\ frame' = [frame EXCEPT !.fn = 0]
    /\ IF more
       THEN /\ Len(owner) < MaxHooks
            /\ info' = [info EXCEPT ![frame.session] = on_commit(@, Len(owner) + 1)]
            /\ owner' = Append(owner, frame.session)
            /\ spawned' = spawned \cup {Len(owner) + 1}
       ELSE UNCHANGED <<info, owner, spawned>>
    /\ UNCHANGED <<txn, pending, db, waiting, discarded, lost>>
    /\ UNCHANGED <<mazeVars, repoVars>>

\* the list is empty: the loop ends and process_hooks returns; the root
\* transaction ends and "after_transaction_end" is dispatched
Finish ==
    /\ frame # NoFrame
    /\ frame.fn = 0
    /\ info[frame.session].hooks = <<>>
    /\ info' = [info EXCEPT ![frame.session] = remove_remaining_hooks(@, FALSE)]
    /\ waiting' = [waiting EXCEPT ![frame.session] = <<>>]
    /\ frame' = NoFrame
    /\ UNCHANGED <<txn, pending, db, calls, owner, discarded, lost, spawned>>
    /\ UNCHANGED <<mazeVars, repoVars>>

\* the steps of process_hooks
Drain ==
    \/ Pop
    \/ \E more \in BOOLEAN : CallHook(more)
    \/ Finish

DrainNext ==
    \/ \E s \in Sessions : frame = NoFrame /\ Register(s)
    \/ \E s \in Sessions : StartCommit(s)
    \/ Drain

\* process_hooks, once started, runs on
DrainSpec ==
    HookInit /\ [][DrainNext]_vars /\ WF_vars(Drain)

\* the callbacks called with s, in the order of the calls
CalledWith(s) ==
    SelectSeq([i \in 1..Len(calls) |-> calls[i][1]],
              LAMBDA f : owner[f] = s)

\* the callbacks of a session are called in the order of their registration,
\* and neither the callback that runs nor one that was called is in a
\* pending list
InOrderAndRemoved ==
    /\ \A i \in 1..Len(calls) : \A j \in 1..Len(calls) :
           (i < j /\ calls[i][2] = calls[j][2]) => calls[i][1] < calls[j][1]
    /\ \A s \in Sessions :
           /\ frame.fn \notin Range(info[s].hooks)
           /\ \A i \in 1..Len(calls) : calls[i][1] \notin Range(info[s].hooks)

\* a step that calls a callback calls the one popped, with the session; the
\* step in which process_hooks finishes finds the list empty and every
\* callback registered with the session so far called, those registered by
\* running callbacks included
DrainsInOneCommit ==
    /\ calls' # calls =>
           /\ frame.fn # 0
           /\ calls' = Append(calls, <<frame.fn, frame.session>>)
    /\ (frame # NoFrame /\ frame' = NoFrame) =>
           /\ info[frame.session].hooks = <<>>
           /\ \A f \in 1..Len(owner) :
                  owner[f] = frame.session => \E i \in 1..Len(calls) : calls[i][1] = f

\* C29: at an outermost commit the pending callbacks run in the order of
\* their registration, each removed from the pending list before it runs; a
\* callback registered by a running callback is appended to the same list
\* and runs during the same commit, after all earlier ones; and processing
\* finishes, with the pending list empty, once the callbacks stop
\* registering new ones.
C29_DrainedInOrder ==
    /\ []InOrderAndRemoved
    /\ [][DrainsInOneCommit]_vars
    /\ (frame # NoFrame) ~> (frame = NoFrame)

\* one commit of s1 called two callbacks registered before it and then a
\* third that the first one registered while it ran
C29_Witness ==
    /\ frame = NoFrame
    /\ calls = <<<<1, "s1">>, <<2, "s1">>, <<3, "s1">>>>
    /\ spawned = {3}
    /\ info["s1"] = NoHooks

----------------------------------------------------------------------------
(* The frame of Repository.delete.                                         *)

\* the entity that a delete step stamps: the one of its model with its
\* primary key, when the model supports soft deletion and the entity is
\* not soft-deleted yet
DeleteTarget ==
    IF /\ ret'.model \in AbstractBaseModels
       /\ ret'.pk \in 1..Len(records[ret'.model])
       /\ records[ret'.model][ret'.pk].deleted_at = not_deleted_value(ret'.model)
    THEN {<<ret'.model, ret'.pk>>}
    ELSE {}

\* a delete step raises UnsupportedModelOperationError on a model without
\* soft deletion, and nothing otherwise; it adds and removes no entity, and
\* stamps deleted_at of its target and of no other entity
DeleteStampsTheTarget ==
    ret'.op = "delete" =>
        /\ ret'.status = IF ret'.model \in AbstractBaseModels
                         THEN "ok" ELSE "UnsupportedModelOperationError"
        /\ \A m \in Models : Len(records'[m]) = Len(records[m])
        /\ \A e \in DeleteTarget :
               records'[e[1]][e[2]].deleted_at # not_deleted_value(e[1])
        /\ \A e \in Stored \ DeleteTarget :
               records'[e[1]][e[2]].deleted_at = records[e[1]][e[2]].deleted_at

\* a delete step changes no field but deleted_at
DeleteChangesNothingElse ==
    ret'.op = "delete" =>
        \A e \in Stored :
            records'[e[1]][e[2]].updated_by = records[e[1]][e[2]].updated_by

\* a delete step changes no field but deleted_at and, of the entities that
\* were new or modified, updated_by; none but deleted_at when the session
\* has no "auth", and none at all on a model without soft deletion
DeleteOnlyFlushes ==
    ret'.op = "delete" =>
        /\ \A e \in Stored \ (session_new \cup session_dirty) :
               records'[e[1]][e[2]].updated_by = records[e[1]][e[2]].updated_by
        /\ auth = "absent" =>
               \A e \in Stored :
                   records'[e[1]][e[2]].updated_by = records[e[1]][e[2]].updated_by
        /\ ret'.model \notin AbstractBaseModels => records' = records

\* C30 as stated: delete(pk) changes at most deleted_at of the one
\* not-yet-deleted record with that primary key and nothing else; an unknown
\* or already soft-deleted pk changes nothing and raises nothing, and a
\* model without soft deletion raises UnsupportedModelOperationError with
\* no record changed.
C30_Stated ==
    [][DeleteStampsTheTarget /\ DeleteChangesNothingElse]_vars

\* C30: delete(pk) changes at most deleted_at of the one not-yet-deleted
\* record with that primary key, and updated_by of the entities that were
\* new or modified in the session, which the flush before its find sets
\* when the session has an auth attribute; an unknown or already
\* soft-deleted pk changes no more than that flush and raises nothing (the
\* earlier timestamp is kept), and a model without soft deletion raises
\* UnsupportedModelOperationError with no record changed.
C30_DeleteFrame ==
    [][DeleteStampsTheTarget /\ DeleteOnlyFlushes]_vars

\* delete was called again for an entity it had stamped at the first
\* reading of the clock: the stamp is kept, in a session with an auth user
\* whose flush stamped the other entity
C30_Witness ==
    /\ ret.op = "delete"
    /\ ret.model = "User"
    /\ ret.pk = 1
    /\ ret.status = "ok"
    /\ clock = 3
    /\ Len(records["User"]) = 2
    /\ records["User"][1].deleted_at = 1
    /\ records["User"][2].deleted_at = not_deleted_value("User")
    /\ records["User"][2].updated_by = user_uuid("AdminUser")

====
